---------------------------- MODULE Spec2Model ----------------------------
(***************************************************************************)
(* Model of the InvestFlow price/indicator caches:                         *)
(*   src/src/lib/indicator-cache.ts  IndicatorCacheService (RSI memo)      *)
(*   src/src/lib/stock-cache.ts      StockCacheService (raw price series)  *)
(*   src/src/lib/api-config.ts       the RSI engine                        *)
(* Both caches live in the browser's localStorage, modelled as one map     *)
(* from key strings to the values JSON.parse gives back.                   *)
(*                                                                         *)
(* Strings are sequences of one-character strings, so that charCodeAt,     *)
(* toUpperCase, startsWith and the FNV hash are computed as the code       *)
(* computes them. Numbers the engine produces are exact rationals          *)
(* <<numerator, denominator>>.                                             *)
(***************************************************************************)
EXTENDS Integers, Sequences, FiniteSets, TLC

\* ------------------------------------------------------------------------
\* Strings
\* ------------------------------------------------------------------------

\* The printable ASCII characters, code 32 at index 1 (the backslash and the
\* backtick, which no key or hashed string of the model holds, by name).
Ascii ==
  << " ", "!", "\"", "#", "$", "%", "&", "'", "(", ")", "*", "+", ",", "-", ".", "/",
     "0", "1", "2", "3", "4", "5", "6", "7", "8", "9", ":", ";", "<", "=", ">", "?",
     "@", "A", "B", "C", "D", "E", "F", "G", "H", "I", "J", "K", "L", "M", "N", "O",
     "P", "Q", "R", "S", "T", "U", "V", "W", "X", "Y", "Z", "[", "backslash", "]", "^", "_",
     "backtick", "a", "b", "c", "d", "e", "f", "g", "h", "i", "j", "k", "l", "m", "n", "o",
     "p", "q", "r", "s", "t", "u", "v", "w", "x", "y", "z", "{", "|", "}", "~" >>

\* f as a table that is built once (f @@ g is f extended by g).
Table(f) == f @@ << >>

\* String.prototype.charCodeAt for one character.
CharCode == Table([c \in {Ascii[i] : i \in 1..Len(Ascii)} |->
                     31 + (CHOOSE i \in 1..Len(Ascii) : Ascii[i] = c)])

\* String.prototype.toUpperCase: a..z (97..122) map to A..Z, the rest is kept.
ToUpperCase(s) ==
  [i \in 1..Len(s) |->
     IF CharCode[s[i]] >= 97 /\ CharCode[s[i]] <= 122
       THEN Ascii[CharCode[s[i]] - 32 - 31]
       ELSE s[i]]

\* String.prototype.startsWith
StartsWith(s, prefix) ==
  /\ Len(prefix) <= Len(s)
  /\ SubSeq(s, 1, Len(prefix)) = prefix

\* Number.prototype.toString for a non-negative integer: its decimal digits.
RECURSIVE NumberToString(_)
NumberToString(n) ==
  IF n < 10 THEN << Ascii[17 + n] >>
  ELSE Append(NumberToString(n \div 10), Ascii[17 + (n % 10)])

\* The literals the code uses, spelled as character sequences.
Chars ==
  [ indicator_cache_ |-> << "i","n","d","i","c","a","t","o","r","_","c","a","c","h","e","_" >>,
    stock_cache_     |-> << "s","t","o","c","k","_","c","a","c","h","e","_" >>,
    drawings         |-> << "d","r","a","w","i","n","g","s" >>,
    rsi              |-> << "r","s","i" >>,
    options          |-> << "o","p","t","i","o","n","s" >>,
    signalPeriod     |-> << "s","i","g","n","a","l","P","e","r","i","o","d" >>,
    period           |-> << "p","e","r","i","o","d" >>,
    source           |-> << "s","o","u","r","c","e" >>,
    smoothing        |-> << "s","m","o","o","t","h","i","n","g" >>,
    precision        |-> << "p","r","e","c","i","s","i","o","n" >>,
    clampEdges       |-> << "c","l","a","m","p","E","d","g","e","s" >>,
    includeIncompleteBar |->
      << "i","n","c","l","u","d","e","I","n","c","o","m","p","l","e","t","e","B","a","r" >>,
    close            |-> << "c","l","o","s","e" >>,
    hlc3             |-> << "h","l","c","3" >>,
    hl2              |-> << "h","l","2" >>,
    ohlc4            |-> << "o","h","l","c","4" >>,
    wilder           |-> << "w","i","l","d","e","r" >>,
    ema              |-> << "e","m","a" >>,
    sma              |-> << "s","m","a" >>,
    true             |-> << "t","r","u","e" >>,
    false            |-> << "f","a","l","s","e" >> ]

\* ------------------------------------------------------------------------
\* simpleHash: 32-bit FNV-1a over the UTF-16 code units, printed in hex.
\* A 32-bit word is kept as <<high 16 bits, low 16 bits>>.
\* ------------------------------------------------------------------------

FNV_OFFSET_HI == 33052   \* 2166136261 = 0x811C9DC5, high half 0x811C
FNV_OFFSET_LO == 40389   \* low half 0x9DC5
FNV_PRIME_LO == 403      \* 16777619 = 0x01000193 = 2^24 + 0x193

\* One bit of a ^ b: w is the bit's weight.
XorBit(a, b, w) == (((a \div w) + (b \div w)) % 2) * w

\* a ^ b on 16 bits.
BitXor(a, b) ==
  XorBit(a, b, 1) + XorBit(a, b, 2) + XorBit(a, b, 4) + XorBit(a, b, 8)
  + XorBit(a, b, 16) + XorBit(a, b, 32) + XorBit(a, b, 64) + XorBit(a, b, 128)
  + XorBit(a, b, 256) + XorBit(a, b, 512) + XorBit(a, b, 1024) + XorBit(a, b, 2048)
  + XorBit(a, b, 4096) + XorBit(a, b, 8192) + XorBit(a, b, 16384) + XorBit(a, b, 32768)

\* h ^= code; h = Math.imul(h, 16777619), on the 32 bits of h.
HashStep(h, code) ==
  LET lo   == BitXor(h[2], code)
      hi   == h[1]
      m    == lo * FNV_PRIME_LO
  IN  << ((hi * FNV_PRIME_LO) + (m \div 65536) + ((lo % 256) * 256)) % 65536,
         m % 65536 >>

\* for (let i = 0; i < str.length; i++) { ... } over str[from..to]: the left
\* half, then the right half from its result. (The test on `left` is always
\* true; it has the left half evaluated before the right half starts, which
\* keeps the evaluation shallow on long strings.)
RECURSIVE HashLoop(_, _, _, _)
HashLoop(h, str, from, to) ==
  IF from > to THEN h
  ELSE IF from = to THEN HashStep(h, CharCode[str[from]])
  ELSE LET mid  == (from + to) \div 2
           left == HashLoop(h, str, from, mid)
       IN  IF left[1] >= 0 THEN HashLoop(left, str, mid + 1, to) ELSE left

\* Hex digits of n, exactly `width` of them.
RECURSIVE HexDigits(_, _)
HexDigits(n, width) ==
  IF width = 0 THEN << >>
  ELSE Append(HexDigits(n \div 16, width - 1),
              IF n % 16 < 10 THEN Ascii[17 + (n % 16)] ELSE Ascii[56 + (n % 16)])

RECURSIVE StripLeadingZeros(_)
StripLeadingZeros(s) ==
  IF Len(s) > 1 /\ s[1] = "0" THEN StripLeadingZeros(Tail(s)) ELSE s

\* (h >>> 0).toString(16)
ToHex(h) == StripLeadingZeros(HexDigits(h[1], 4) \o HexDigits(h[2], 4))

simpleHash(str) == ToHex(HashLoop(<< FNV_OFFSET_HI, FNV_OFFSET_LO >>, str, 1, Len(str)))

\* ------------------------------------------------------------------------
\* Numbers. A number is a rational <<n, d>> in lowest terms with d > 0, or
\* <<1, 0>> (Infinity) or <<-1, 0>> (-Infinity). Every arithmetic operation
\* rounds its exact result to the nearest binary floating-point number, ties
\* to the even significand, as IEEE 754 does; the significand has MantissaBits
\* bits where a double has 53. Overflow and underflow are not modelled.
\* ------------------------------------------------------------------------

MantissaBits == 5

RECURSIVE Gcd(_, _)
Gcd(a, b) == IF b = 0 THEN a ELSE Gcd(b, a % b)

Abs(x) == IF x < 0 THEN -x ELSE x

\* n / d by their greatest common divisor g, with the sign in the numerator.
Reduce(n, d, g) == << (IF d < 0 THEN -n ELSE n) \div g, (IF d < 0 THEN -d ELSE d) \div g >>

Rat(n, d) == Reduce(n, d, Gcd(Abs(n), Abs(d)))

\* The integer nearest to num / den, the even one on a tie.
NearestEven(num, den) ==
  IF 2 * (num % den) > den \/ (2 * (num % den) = den /\ (num \div den) % 2 = 1)
    THEN (num \div den) + 1
    ELSE num \div den

\* Half and twice a number m / 2^j in lowest terms.
Halve(r) == IF r[1] % 2 = 0 THEN << r[1] \div 2, r[2] >> ELSE << r[1], 2 * r[2] >>
Double(r) == IF r[2] > 1 THEN << r[1], r[2] \div 2 >> ELSE << 2 * r[1], 1 >>

\* The floating-point number nearest to a / d, for a > 0 and d > 0: a / d is
\* scaled by powers of two into [2^(MantissaBits - 1), 2^MantissaBits), rounded
\* to an integer there, and scaled back.
RECURSIVE RoundPositive(_, _)
RoundPositive(a, d) ==
  IF a < 2^(MantissaBits - 1) * d THEN Halve(RoundPositive(2 * a, d))
  ELSE IF a >= 2^MantissaBits * d THEN Double(RoundPositive(a, 2 * d))
  ELSE << NearestEven(a, d), 1 >>

\* r with the sign of s.
SignedBy(s, r) == IF s < 0 THEN << -r[1], r[2] >> ELSE r

\* The floating-point number nearest to q; zero and the infinities are exact.
RoundToFloat(q) ==
  IF q[1] = 0 \/ q[2] = 0 THEN q
  ELSE SignedBy(q[1], RoundPositive(Abs(q[1]), q[2]))

\* An integer read as a number: the floating-point number nearest to it.
RInt(n) == RoundToFloat(<< n, 1 >>)
RAdd(a, b) == RoundToFloat(Rat((a[1] * b[2]) + (b[1] * a[2]), a[2] * b[2]))
RSub(a, b) == RoundToFloat(Rat((a[1] * b[2]) - (b[1] * a[2]), a[2] * b[2]))
RMul(a, b) == RoundToFloat(Rat(a[1] * b[1], a[2] * b[2]))
RDiv(a, b) == RoundToFloat(Rat(a[1] * b[2], a[2] * b[1]))
RLess(a, b) == (a[1] * b[2]) < (b[1] * a[2])
RLeq(a, b) == (a[1] * b[2]) <= (b[1] * a[2])
RZero == << 0, 1 >>

RECURSIVE Pow10(_)
Pow10(p) == IF p = 0 THEN 1 ELSE 10 * Pow10(p - 1)

\* Number.isFinite(v) ? Number(v.toFixed(p)) : v. toFixed gives the nearest
\* multiple of 10^-p, the one of larger magnitude on a tie; Number reads it as
\* a floating-point number.
ToFixed(v, p) ==
  IF v[2] = 0 THEN v
  ELSE LET digits == ((2 * Abs(v[1]) * Pow10(p)) + v[2]) \div (2 * v[2])
       IN  RoundToFloat(Rat((IF v[1] < 0 THEN -1 ELSE 1) * digits, Pow10(p)))

\* ------------------------------------------------------------------------
\* RSIOptions: the object's own fields in insertion order, each <<name, value>>.
\* ------------------------------------------------------------------------

HasField(opts, name) == \E i \in 1..Len(opts) : opts[i][1] = name

Field(opts, name) == opts[CHOOSE i \in 1..Len(opts) : opts[i][1] = name][2]

\* opts.name ?? default
FieldOr(opts, name, default) ==
  IF HasField(opts, name) THEN Field(opts, name) ELSE default

\* ------------------------------------------------------------------------
\* The RSI engine (api-config.ts)
\* ------------------------------------------------------------------------

mapSource(ohlc, source) ==
  [i \in 1..Len(ohlc) |->
     CASE source = "hlc3"  ->
            RDiv(RAdd(RAdd(RInt(ohlc[i].high), RInt(ohlc[i].low)), RInt(ohlc[i].close)),
                 RInt(3))
       [] source = "hl2"   ->
            RDiv(RAdd(RInt(ohlc[i].high), RInt(ohlc[i].low)), RInt(2))
       [] source = "ohlc4" ->
            RDiv(RAdd(RAdd(RAdd(RInt(ohlc[i].open), RInt(ohlc[i].high)),
                           RInt(ohlc[i].low)), RInt(ohlc[i].close)),
                 RInt(4))
       [] OTHER            -> RInt(ohlc[i].close)]

\* gains.push(ch > 0 ? ch : 0) and losses.push(ch < 0 ? Math.abs(ch) : 0)
GainOf(ch) == IF RLess(RZero, ch) THEN ch ELSE RZero
LossOf(ch) == IF RLess(ch, RZero) THEN RSub(RZero, ch) ELSE RZero

\* gains[i] and losses[i] of the code are Gains(closes)[i + 1], Losses(closes)[i + 1].
Gains(closes) ==
  [i \in 1..(Len(closes) - 1) |-> GainOf(RSub(closes[i + 1], closes[i]))]

Losses(closes) ==
  [i \in 1..(Len(closes) - 1) |-> LossOf(RSub(closes[i + 1], closes[i]))]

RECURSIVE SumTo(_, _)
SumTo(xs, n) == IF n = 0 THEN RZero ELSE RAdd(SumTo(xs, n - 1), xs[n])

\* rs = avgLoss === 0 ? Infinity : avgGain / avgLoss;  100 - 100 / (1 + rs)
\* (100 / (1 + Infinity) is 0).
RsFormula(avgGain, avgLoss) ==
  IF avgLoss = RZero THEN RInt(100)
  ELSE RSub(RInt(100), RDiv(RInt(100), RAdd(RInt(1), RDiv(avgGain, avgLoss))))

\* The first pushed value: only the avgLoss === 0 edge is clamped.
FirstRsiValue(clampEdges, avgGain, avgLoss) ==
  IF clampEdges /\ avgLoss = RZero THEN RInt(100)
  ELSE RsFormula(avgGain, avgLoss)

\* Every later value: both edges are clamped.
NextRsiValue(clampEdges, avgGain, avgLoss) ==
  IF clampEdges /\ avgLoss = RZero THEN RInt(100)
  ELSE IF clampEdges /\ avgGain = RZero THEN RZero
  ELSE RsFormula(avgGain, avgLoss)

\* sumGain (sumLoss) of the sma branch after the loop's round i, i the code's
\* index; i = period - 1 is the sum before the loop.
RECURSIVE RollingSumAt(_, _, _)
RollingSumAt(xs, period, i) ==
  IF i < period THEN SumTo(xs, period)
  ELSE RAdd(RollingSumAt(xs, period, i - 1), RSub(xs[i + 1], xs[i + 1 - period]))

\* for (let i = period; i < gains.length; i++), sma: i is the code's index.
\* SmaStep is the loop's body once sumGain and sumLoss are updated.
RECURSIVE SmaLoop(_, _, _, _, _, _, _, _)
SmaStep(gains, losses, period, clampEdges, i, sumGain, sumLoss, rsiValues) ==
  SmaLoop(gains, losses, period, clampEdges, i + 1, sumGain, sumLoss,
          Append(rsiValues,
                 NextRsiValue(clampEdges, RDiv(sumGain, RInt(period)),
                              RDiv(sumLoss, RInt(period)))))

SmaLoop(gains, losses, period, clampEdges, i, sumGain, sumLoss, rsiValues) ==
  IF i >= Len(gains) THEN rsiValues
  ELSE SmaStep(gains, losses, period, clampEdges, i,
               RAdd(sumGain, RSub(gains[i + 1], gains[i + 1 - period])),
               RAdd(sumLoss, RSub(losses[i + 1], losses[i + 1 - period])),
               rsiValues)

\* The ema and wilder loops' body once avgGain and avgLoss are updated.
AverageStep(clampEdges, avgGain, avgLoss, rsiValues) ==
  [avgGain |-> avgGain, avgLoss |-> avgLoss,
   rsiValues |-> Append(rsiValues, NextRsiValue(clampEdges, avgGain, avgLoss))]

\* alpha * x + (1 - alpha) * avg
EmaOf(alpha, x, avg) == RAdd(RMul(alpha, x), RMul(RSub(RInt(1), alpha), avg))

RECURSIVE EmaLoop(_, _, _, _, _, _, _, _)
EmaAfter(gains, losses, period, clampEdges, i, step) ==
  EmaLoop(gains, losses, period, clampEdges, i + 1, step.avgGain, step.avgLoss,
          step.rsiValues)

EmaLoop(gains, losses, period, clampEdges, i, avgGain, avgLoss, rsiValues) ==
  IF i >= Len(gains) THEN rsiValues
  ELSE EmaAfter(gains, losses, period, clampEdges, i,
                AverageStep(clampEdges,
                            EmaOf(RDiv(RInt(2), RInt(period + 1)), gains[i + 1], avgGain),
                            EmaOf(RDiv(RInt(2), RInt(period + 1)), losses[i + 1], avgLoss),
                            rsiValues))

\* (avg * (period - 1) + x) / period
WilderOf(period, x, avg) == RDiv(RAdd(RMul(avg, RInt(period - 1)), x), RInt(period))

RECURSIVE WilderLoop(_, _, _, _, _, _, _, _)
WilderAfter(gains, losses, period, clampEdges, i, step) ==
  WilderLoop(gains, losses, period, clampEdges, i + 1, step.avgGain, step.avgLoss,
             step.rsiValues)

WilderLoop(gains, losses, period, clampEdges, i, avgGain, avgLoss, rsiValues) ==
  IF i >= Len(gains) THEN rsiValues
  ELSE WilderAfter(gains, losses, period, clampEdges, i,
                   AverageStep(clampEdges,
                               WilderOf(period, gains[i + 1], avgGain),
                               WilderOf(period, losses[i + 1], avgLoss),
                               rsiValues))

\* A loop that leaves out its first round.
FirstLoopIndexLate(period) == period + 1

\* for (let i = period; ...): where the three smoothing loops start.
FirstLoopIndex(period) == period

\* The rest of calculateRSIWithOptions, split where the code binds a local:
\* rsiValues after the branch on smoothing, from the first window's sums and
\* averages and the first pushed value.
RsiBySmoothing(gains, losses, period, smoothing, clampEdges, sumGain, sumLoss, avgGain, avgLoss, first) ==
  CASE smoothing = "sma" ->
         SmaLoop(gains, losses, period, clampEdges, FirstLoopIndex(period),
                 sumGain, sumLoss, first)
    [] smoothing = "ema" ->
         EmaLoop(gains, losses, period, clampEdges, FirstLoopIndex(period),
                 avgGain, avgLoss, first)
    [] OTHER ->
         WilderLoop(gains, losses, period, clampEdges, FirstLoopIndex(period),
                    avgGain, avgLoss, first)

RsiFromAverages(gains, losses, period, smoothing, clampEdges, sumGain, sumLoss, avgGain, avgLoss) ==
  RsiBySmoothing(gains, losses, period, smoothing, clampEdges,
                 sumGain, sumLoss, avgGain, avgLoss,
                 << FirstRsiValue(clampEdges, avgGain, avgLoss) >>)

RsiFromSums(gains, losses, period, smoothing, clampEdges, sumGain, sumLoss) ==
  RsiFromAverages(gains, losses, period, smoothing, clampEdges, sumGain, sumLoss,
                  RDiv(sumGain, RInt(period)), RDiv(sumLoss, RInt(period)))

RsiFromChanges(gains, losses, period, smoothing, clampEdges) ==
  RsiFromSums(gains, losses, period, smoothing, clampEdges,
              SumTo(gains, period), SumTo(losses, period))

RsiFromCloses(closes, period, smoothing, clampEdges) ==
  RsiFromChanges(Gains(closes), Losses(closes), period, smoothing, clampEdges)

\* if (typeof opts.precision === 'number') return rsiValues.map(...)
WithPrecision(opts, rsiValues) ==
  IF HasField(opts, "precision")
    THEN [k \in 1..Len(rsiValues) |-> ToFixed(rsiValues[k], Field(opts, "precision"))]
    ELSE rsiValues

calculateRSIWithOptions(ohlc, opts) ==
  IF Len(ohlc) < FieldOr(opts, "period", 14) + 1 THEN << >>
  ELSE WithPrecision(opts,
                     RsiFromCloses(mapSource(ohlc, FieldOr(opts, "source", "close")),
                                   FieldOr(opts, "period", 14),
                                   FieldOr(opts, "smoothing", "wilder"),
                                   FieldOr(opts, "clampEdges", FALSE)))

\* A signal line that divides each window's sum by one more than its size.
calculateSignalWideDivisor(rsi, period) ==
  IF Len(rsi) < period THEN << >>
  ELSE [k \in 1..(Len(rsi) - period + 1) |->
          RDiv(SumTo([j \in 1..period |-> rsi[k + period - j]], period), RInt(period + 1))]

\* signal.push(sum / period) for i = period - 1 .. rsi.length - 1
calculateSignal(rsi, period) ==
  IF Len(rsi) < period THEN << >>
  ELSE [k \in 1..(Len(rsi) - period + 1) |->
          RDiv(SumTo([j \in 1..period |-> rsi[k + period - j]], period), RInt(period))]

Min(a, b) == IF a < b THEN a ELSE b

\* Events from lines paired from their starts, not from their ends.
CrossoversAtFromStart(rsi, signal, i) ==
  (IF RLeq(rsi[i], signal[i]) /\ RLess(signal[i + 1], rsi[i + 1])
     THEN << [time |-> i, type |-> "bullish"] >> ELSE << >>)
  \o
  (IF RLeq(signal[i], rsi[i]) /\ RLess(rsi[i + 1], signal[i + 1])
     THEN << [time |-> i, type |-> "bearish"] >> ELSE << >>)

\* The events of the code's step i (1 <= i < minLength), bullish first.
CrossoversAt(rsi, signal, i) ==
  LET minLength     == Min(Len(rsi), Len(signal))
      prevRsi       == rsi[Len(rsi) - minLength + i]
      prevSignal    == signal[i]
      currentRsi    == rsi[Len(rsi) - minLength + i + 1]
      currentSignal == signal[i + 1]
      time          == Len(rsi) - minLength + i
  IN  (IF RLeq(prevRsi, prevSignal) /\ RLess(currentSignal, currentRsi)
         THEN << [time |-> time, type |-> "bullish"] >> ELSE << >>)
      \o
      (IF RLeq(prevSignal, prevRsi) /\ RLess(currentRsi, currentSignal)
         THEN << [time |-> time, type |-> "bearish"] >> ELSE << >>)

RECURSIVE CrossoverLoop(_, _, _)
CrossoverLoop(rsi, signal, i) ==
  IF i >= Min(Len(rsi), Len(signal)) THEN << >>
  ELSE CrossoversAt(rsi, signal, i) \o CrossoverLoop(rsi, signal, i + 1)

detectCrossovers(rsi, signal) ==
  IF Len(rsi) = 0 \/ Len(signal) = 0 THEN << >>
  ELSE CrossoverLoop(rsi, signal, 1)

\* { rsi, signal, crossovers } of a line that is not empty.
WithCrossovers(rsi, signal) ==
  [rsi |-> rsi, signal |-> signal, crossovers |-> detectCrossovers(rsi, signal)]

\* calculateRSIDataWithOptions once rsi is computed.
RsiDataOf(rsi, signalPeriod) ==
  IF Len(rsi) = 0
    THEN [rsi |-> << >>, signal |-> << >>, crossovers |-> << >>]
    ELSE WithCrossovers(rsi, calculateSignal(rsi, signalPeriod))

calculateRSIDataWithOptions(ohlc, rsiOpts, signalPeriod) ==
  RsiDataOf(calculateRSIWithOptions(ohlc, rsiOpts), signalPeriod)

\* calculateRSI (closes only, Wilder): rs = avgLoss === 0 ? 100 : avgGain / avgLoss;
\* rsi = 100 - (100 / (1 + rs))
RsOf(avgGain, avgLoss) == IF avgLoss = RZero THEN RInt(100) ELSE RDiv(avgGain, avgLoss)

RsiOf(avgGain, avgLoss) ==
  RSub(RInt(100), RDiv(RInt(100), RAdd(RInt(1), RsOf(avgGain, avgLoss))))

\* calculateRSI: the loop from i = period, i the code's index.
RECURSIVE CalculateRSILoop(_, _, _, _, _, _, _)
CalculateRSIStep(gains, losses, period, i, avgGain, avgLoss, rsiValues) ==
  CalculateRSILoop(gains, losses, period, i + 1, avgGain, avgLoss,
                   Append(rsiValues, RsiOf(avgGain, avgLoss)))

CalculateRSILoop(gains, losses, period, i, avgGain, avgLoss, rsiValues) ==
  IF i >= Len(gains) THEN rsiValues
  ELSE CalculateRSIStep(gains, losses, period, i,
                        WilderOf(period, gains[i + 1], avgGain),
                        WilderOf(period, losses[i + 1], avgLoss),
                        rsiValues)

\* calculateRSI from the initial averages on.
CalculateRSIFrom(gains, losses, period, avgGain, avgLoss) ==
  CalculateRSILoop(gains, losses, period, period, avgGain, avgLoss,
                   << RsiOf(avgGain, avgLoss) >>)

CalculateRSIOfChanges(gains, losses, period) ==
  CalculateRSIFrom(gains, losses, period,
                   RDiv(SumTo(gains, period), RInt(period)),
                   RDiv(SumTo(losses, period), RInt(period)))

calculateRSI(closes, period) ==
  IF Len(closes) < period + 1 THEN << >>
  ELSE CalculateRSIOfChanges(Gains(closes), Losses(closes), period)

\* calculateRSIData; unlike calculateRSIDataWithOptions it asks for
\* rsiPeriod + signalPeriod closes before it computes anything.
calculateRSIData(closes, rsiPeriod, signalPeriod) ==
  IF Len(closes) < rsiPeriod + signalPeriod
    THEN [rsi |-> << >>, signal |-> << >>, crossovers |-> << >>]
    ELSE WithCrossovers(calculateRSI(closes, rsiPeriod),
                        calculateSignal(calculateRSI(closes, rsiPeriod), signalPeriod))

\* ------------------------------------------------------------------------
\* Indicator cache keys (indicator-cache.ts)
\* ------------------------------------------------------------------------

INDICATOR_CACHE_VERSION == 1
INDICATOR_CACHE_TTL_MS == 86400000
CACHE_EXPIRY == 86400000
DATA_RANGE_YEARS == 2
MS_PER_DAY == 86400000

RECURSIVE Concat(_)
Concat(parts) == IF Len(parts) = 0 THEN << >> ELSE Head(parts) \o Concat(Tail(parts))

\* JSON text of one option value: numbers in decimal, strings quoted,
\* booleans as true / false.
JsonOptionValue(name, value) ==
  CASE name \in {"period", "precision"} -> NumberToString(value)
    [] name \in {"source", "smoothing"}  -> << "\"" >> \o Chars[value] \o << "\"" >>
    [] OTHER -> IF value THEN Chars["true"] ELSE Chars["false"]

RECURSIVE JsonMembers(_, _)
JsonMembers(opts, i) ==
  IF i > Len(opts) THEN << >>
  ELSE (IF i > 1 THEN << "," >> ELSE << >>)
       \o << "\"" >> \o Chars[opts[i][1]] \o << "\"", ":" >>
       \o JsonOptionValue(opts[i][1], opts[i][2])
       \o JsonMembers(opts, i + 1)

\* JSON.stringify({ options, signalPeriod })
StringifyParams(options, signalPeriod) ==
  Concat(<< << "{", "\"" >>, Chars["options"], << "\"", ":", "{" >>,
            JsonMembers(options, 1),
            << "}", ",", "\"" >>, Chars["signalPeriod"], << "\"", ":" >>,
            NumberToString(signalPeriod), << "}" >> >>)

hashParams(options, signalPeriod) == simpleHash(StringifyParams(options, signalPeriod))

\* A bar's text with the volume appended to the close.
BarTextWithVolume(p) ==
  Concat(<< IF "timestamp" \in DOMAIN p THEN NumberToString(p.timestamp) ELSE << >>,
            << "|" >>, NumberToString(p.open),
            << "|" >>, NumberToString(p.high),
            << "|" >>, NumberToString(p.low),
            << "|" >>, NumberToString(p.close),
            << "|" >>, NumberToString(p.volume), << ";" >> >>)

\* `${p.timestamp ?? ''}|${p.open}|${p.high}|${p.low}|${p.close};`
BarText(p) ==
  Concat(<< IF "timestamp" \in DOMAIN p THEN NumberToString(p.timestamp) ELSE << >>,
            << "|" >>, NumberToString(p.open),
            << "|" >>, NumberToString(p.high),
            << "|" >>, NumberToString(p.low),
            << "|" >>, NumberToString(p.close), << ";" >> >>)

\* for (const p of ohlc) acc += ...
RECURSIVE OHLCText(_, _)
OHLCText(ohlc, i) ==
  IF i > Len(ohlc) THEN << >>
  ELSE BarText(ohlc[i]) \o OHLCText(ohlc, i + 1)

hashOHLC(ohlc) == simpleHash(OHLCText(ohlc, 1))

makeKey(symbol, timeframe, indicator, paramsHash, ohlcHash) ==
  Concat(<< Chars["indicator_cache_"], ToUpperCase(symbol), << ":" >>, timeframe,
            << ":" >>, indicator, << ":" >>, paramsHash, << ":" >>, ohlcHash >>)

\* ------------------------------------------------------------------------
\* The inputs the operations are called with
\* ------------------------------------------------------------------------

MaxTicks == 1      \* the clock stays below (MaxTicks + 1) * INDICATOR_CACHE_TTL_MS
MaxEntries == 2    \* indicator entries held by the store at one time
MaxOverlap == 1    \* calls that return while another call for the same key awaits

Symbols == { << "k", "o" >>, << "K", "O" >>, << "G", "E" >> }

Timeframes == { << "1", "d" >> }

Bar(t, o, h, l, c, v) ==
  [timestamp |-> t, open |-> o, high |-> h, low |-> l, close |-> c, volume |-> v]

\* Two bars with a rising close.
SeriesUp == << Bar(1, 2, 7, 2, 4, 100), Bar(2, 3, 7, 3, 6, 100) >>
\* SeriesUp with other volumes.
SeriesUpVolume == << Bar(1, 2, 7, 2, 4, 250), Bar(2, 3, 7, 3, 6, 0) >>
\* SeriesUp with another last close: the close falls, (high + low) / 2 rises.
SeriesDip == << Bar(1, 2, 7, 2, 4, 100), Bar(2, 3, 7, 3, 3, 100) >>
\* Two bars with a falling close, differing from SeriesUp in open, high, low
\* and close of both bars.
SeriesDown == << Bar(1, 8, 8, 3, 8, 100), Bar(2, 3, 4, 2, 4, 100) >>

OhlcInputs == { SeriesUp, SeriesUpVolume, SeriesDip, SeriesDown }

OptionInputs == { << << "period", 1 >> >> }

SignalPeriods == { 1 }

\* The options and signalPeriod the chart asks for together.
ParamInputs == OptionInputs \X SignalPeriods

Requests ==
  [symbol : Symbols, timeframe : Timeframes, ohlc : OhlcInputs,
   options : OptionInputs, signalPeriod : SignalPeriods]

\* ------------------------------------------------------------------------
\* localStorage: a map from keys to the values JSON.parse returns for them.
\* JSON.parse(JSON.stringify(x)) is x for the finite numbers, strings,
\* booleans, arrays and plain objects that the two caches write.
\* storeMode: "ok"; "readonly" (setItem throws: quota exceeded or a private
\* window); "denied" (every access to localStorage throws).
\* A value that may be null is << >> for null and << v >> for v.
\* ------------------------------------------------------------------------

VARIABLES
  now,        \* Date.now(), in ms
  storage,    \* localStorage
  storeMode,  \* how the store behaves in this session
  flows,      \* the refreshCacheWithLatest calls in progress, by caller
  origin,     \* history: for each indicator key, the inputs its entry was computed from
  last,       \* history: the last operation that returned, its arguments and result
  chart       \* the StockChart component: its props and its chartData

vars == << now, storage, storeMode, flows, origin, last, chart >>

Put(store, k, v) == [x \in (DOMAIN store) \cup {k} |-> IF x = k THEN v ELSE store[x]]

Remove(store, k) == [x \in (DOMAIN store) \ {k} |-> store[x]]

\* The keys in the order localStorage.key(i) reports them (i from 0).
RECURSIVE KeySeq(_)
KeySeq(keys) ==
  IF keys = {} THEN << >>
  ELSE LET k == CHOOSE x \in keys : TRUE IN << k >> \o KeySeq(keys \ {k})

StorageKey(store, i) == KeySeq(DOMAIN store)[i + 1]

StorageLength(store) == Cardinality(DOMAIN store)

\* for (let i = localStorage.length - 1; i >= 0; i--) {
\*   const k = localStorage.key(i); if (k && k.startsWith(prefix)) localStorage.removeItem(k); }
RECURSIVE RemoveByPrefix(_, _, _)
RemoveByPrefix(store, i, prefix) ==
  IF i < 0 THEN store
  ELSE LET k == StorageKey(store, i)
       IN  RemoveByPrefix(IF StartsWith(k, prefix) THEN Remove(store, k) ELSE store,
                          i - 1, prefix)

IsIndicatorKey(k) == StartsWith(k, Chars["indicator_cache_"])

IndicatorKeys(store) == { k \in DOMAIN store : IsIndicatorKey(k) }

\* ------------------------------------------------------------------------
\* IndicatorCacheService
\* ------------------------------------------------------------------------

\* hashParams and hashOHLC of every input, evaluated once.
ParamsHashOf ==
  Table([p \in ParamInputs |-> hashParams(p[1], p[2])])

OhlcHashOf == Table([ohlc \in OhlcInputs |-> hashOHLC(ohlc)])

\* calculateRSIDataWithOptions on each of the inputs, computed once.
ComputedOf ==
  Table([p \in OhlcInputs \X ParamInputs |->
           calculateRSIDataWithOptions(p[1], p[2][1], p[2][2])])

\* The key getOrComputeRSI derives for a request.
KeyOf(r) ==
  makeKey(r.symbol, r.timeframe, Chars["rsi"],
          ParamsHashOf[<< r.options, r.signalPeriod >>], OhlcHashOf[r.ohlc])

\* An entry expiring as soon as its age reaches the TTL.
IndicatorExpiredAtTTL(entry) == now - entry.lastUpdated >= INDICATOR_CACHE_TTL_MS

\* Date.now() - entry.lastUpdated > TTL_MS
IndicatorExpired(entry) == now - entry.lastUpdated > INDICATOR_CACHE_TTL_MS

\* IndicatorCacheService.get: entry.data, or null; an exception gives null.
IndicatorGet(key) ==
  IF storeMode = "denied" THEN << >>
  ELSE IF key \notin DOMAIN storage THEN << >>
  ELSE IF storage[key].version # INDICATOR_CACHE_VERSION THEN << >>
  ELSE IF IndicatorExpired(storage[key]) THEN << >>
  ELSE << storage[key].data >>

\* A set that writes nothing.
IndicatorSetDropped(key, indicator, paramsHash, ohlcHash, data) == storage

\* IndicatorCacheService.set: the store after it; an exception is swallowed.
IndicatorSet(key, indicator, paramsHash, ohlcHash, data) ==
  IF storeMode # "ok" THEN storage
  ELSE Put(storage, key,
           [version |-> INDICATOR_CACHE_VERSION, indicator |-> indicator,
            paramsHash |-> paramsHash, ohlcHash |-> ohlcHash,
            lastUpdated |-> now, data |-> data])

\* The inputs of the computation, as `origin` and `last` remember them.
Inputs(r) == [ohlc |-> r.ohlc, options |-> r.options, signalPeriod |-> r.signalPeriod]

\* What `last` records of a getOrComputeRSI call besides the result:
\*   inputs  the call's ohlc, options and signalPeriod
\*   direct  calculateRSIDataWithOptions called directly on them
\*   found   the entry under the call's key before the call: << >>, or << e >>
\*           with e its lastUpdated and the inputs it was computed from
\*   at      Date.now() during the call
Found(key) ==
  IF key \in DOMAIN storage
    THEN << [lastUpdated |-> storage[key].lastUpdated, from |-> origin[key]] >>
    ELSE << >>

GetOrComputeRSI(r) ==
  LET paramsHash == ParamsHashOf[<< r.options, r.signalPeriod >>]
      ohlcHash   == OhlcHashOf[r.ohlc]
      key        == makeKey(r.symbol, r.timeframe, Chars["rsi"], paramsHash, ohlcHash)
      cached     == IndicatorGet(key)
      computed   == ComputedOf[<< r.ohlc, << r.options, r.signalPeriod >> >>]
      call       == [op |-> "getOrComputeRSI", inputs |-> Inputs(r), at |-> now,
                     direct |-> computed, found |-> Found(key)]
  IN  /\ \/ key \in DOMAIN storage
         \/ Cardinality(IndicatorKeys(storage)) < MaxEntries
      /\ IF cached # << >>
           THEN /\ storage' = storage
                /\ origin' = origin
                /\ last' = call @@ [hit |-> TRUE, returned |-> cached[1]]
           ELSE /\ storage' = IndicatorSet(key, Chars["rsi"], paramsHash, ohlcHash, computed)
                /\ origin' = IF storeMode = "ok" THEN Put(origin, key, Inputs(r)) ELSE origin
                /\ last' = call @@ [hit |-> FALSE, returned |-> computed]
      /\ UNCHANGED << now, storeMode, flows, chart >>

\* clearAll / clearSymbol have no try: an exception of the store reaches the caller.
ClearAll ==
  /\ IF storeMode = "denied"
       THEN /\ UNCHANGED << storage, origin >>
            /\ last' = [op |-> "clearAll", threw |-> TRUE, removed |-> 0]
       ELSE /\ storage' = RemoveByPrefix(storage, StorageLength(storage) - 1,
                                         Chars["indicator_cache_"])
            /\ origin' = [k \in (DOMAIN origin) \cap (DOMAIN storage') |-> origin[k]]
            /\ last' = [op |-> "clearAll", threw |-> FALSE,
                         removed |-> Cardinality(DOMAIN storage \ DOMAIN storage')]
  /\ UNCHANGED << now, storeMode, flows, chart >>

\* The prefix of a symbol's keys, with the symbol as the caller wrote it.
SymbolPrefixAsGiven(symbol) == Chars["indicator_cache_"] \o symbol \o << ":" >>

\* `${INDICATOR_CACHE_PREFIX}${symbol.toUpperCase()}:`
SymbolPrefix(symbol) == Chars["indicator_cache_"] \o ToUpperCase(symbol) \o << ":" >>

ClearSymbol(symbol) ==
  LET prefix == SymbolPrefix(symbol)
  IN  /\ IF storeMode = "denied"
           THEN /\ UNCHANGED << storage, origin >>
                /\ last' = [op |-> "clearSymbol", symbol |-> symbol, threw |-> TRUE,
                             removed |-> 0]
           ELSE /\ storage' = RemoveByPrefix(storage, StorageLength(storage) - 1, prefix)
                /\ origin' = [k \in (DOMAIN origin) \cap (DOMAIN storage') |-> origin[k]]
                /\ last' = [op |-> "clearSymbol", symbol |-> symbol, threw |-> FALSE,
                             removed |-> Cardinality(DOMAIN storage \ DOMAIN storage')]
      /\ UNCHANGED << now, storeMode, flows, chart >>

\* Time passes between operations: the TTL exactly, or one ms more.
Tick(d) ==
  /\ (now + d) \div INDICATOR_CACHE_TTL_MS <= MaxTicks
  /\ now' = now + d
  /\ UNCHANGED << storage, storeMode, flows, origin, last, chart >>

\* ------------------------------------------------------------------------
\* StockCacheService (stock-cache.ts)
\* ------------------------------------------------------------------------

StockKey(symbol) == Chars["stock_cache_"] \o ToUpperCase(symbol)

\* A ChartDataPoint with every field set; price is the close.
Point(t, o, h, l, c, v) ==
  [timestamp |-> t, price |-> c, open |-> o, high |-> h, low |-> l, close |-> c,
   volume |-> v]

\* What StockDataService.getChartData resolves to, and what the chart stores.
BatchEarly   == << Point(1, 2, 7, 2, 4, 100), Point(2, 3, 7, 3, 6, 100) >>
\* 2 again, with another close, and the new 3.
BatchLate    == << Point(2, 3, 7, 3, 5, 120), Point(3, 6, 8, 5, 7, 90) >>
\* BatchEarly's timestamps, newest first.
BatchReverse == << Point(2, 3, 7, 3, 6, 100), Point(1, 2, 7, 2, 4, 100) >>
\* The new timestamp 3 twice.
BatchTwice   == << Point(3, 6, 8, 5, 7, 90), Point(3, 6, 9, 5, 8, 95) >>

Batches == { << >>, BatchEarly, BatchLate, BatchReverse, BatchTwice }

\* An awaited getChartData resolves to a batch or rejects.
FetchOutcomes == { [ok |-> TRUE, data |-> b] : b \in Batches } \cup { [ok |-> FALSE] }

Callers == { "chart" }

\* toISOString().split('T')[0] of a Date: the UTC day, as its number since the epoch.
IsoDay(ms) == ms \div MS_PER_DAY

\* dataRange: from is the day `to`, DATA_RANGE_YEARS calendar years earlier.
DataRange(ms) ==
  [from |-> [day |-> IsoDay(ms), yearsBefore |-> DATA_RANGE_YEARS], to |-> IsoDay(ms)]

Timestamps(data) == { data[i].timestamp : i \in 1..Len(data) }

\* A filter that lets every element through.
FilterKeepsAll(data, keep) == data

\* Array.prototype.filter
RECURSIVE Filter(_, _)
Filter(data, keep) ==
  IF Len(data) = 0 THEN << >>
  ELSE (IF Head(data).timestamp \in keep THEN << Head(data) >> ELSE << >>)
       \o Filter(Tail(data), keep)

\* [...].sort((a, b) => a.timestamp - b.timestamp): a stable sort, by insertion.
RECURSIVE InsertByTimestamp(_, _)
InsertByTimestamp(sorted, p) ==
  IF Len(sorted) = 0 THEN << p >>
  ELSE IF sorted[Len(sorted)].timestamp <= p.timestamp THEN Append(sorted, p)
  ELSE Append(InsertByTimestamp(SubSeq(sorted, 1, Len(sorted) - 1), p),
              sorted[Len(sorted)])

RECURSIVE SortByTimestamp(_)
SortByTimestamp(data) ==
  IF Len(data) = 0 THEN << >>
  ELSE InsertByTimestamp(SortByTimestamp(SubSeq(data, 1, Len(data) - 1)),
                         data[Len(data)])

\* A series expiring as soon as its age reaches CACHE_EXPIRY.
StockExpiredAtExpiry(cachedData) == now - cachedData.lastUpdated >= CACHE_EXPIRY

\* Date.now() - cachedData.lastUpdated > CACHE_EXPIRY
StockExpired(cachedData) == now - cachedData.lastUpdated > CACHE_EXPIRY

\* Every fetched point, whether the cached series holds its timestamp or not.
ToAppendAll(cachedData, latest) == latest

\* The fetched points whose timestamp the cached series does not hold.
ToAppend(cachedData, latest) ==
  Filter(latest, Timestamps(latest) \ Timestamps(cachedData))

\* getCachedData: what it returns (ret) and the store after it. A stale entry
\* is removed; an exception gives null.
GetCached(symbol) ==
  LET cacheKey == StockKey(symbol)
  IN  IF storeMode = "denied" THEN [ret |-> << >>, store |-> storage]
      ELSE IF cacheKey \notin DOMAIN storage THEN [ret |-> << >>, store |-> storage]
      ELSE IF StockExpired(storage[cacheKey])
        THEN [ret |-> << >>, store |-> Remove(storage, cacheKey)]
      ELSE [ret |-> << storage[cacheKey] >>, store |-> storage]

\* setCachedData: the store after it; an exception is logged and swallowed.
SetCached(symbol, data) ==
  IF storeMode # "ok" THEN storage
  ELSE Put(storage, StockKey(symbol),
           [symbol |-> ToUpperCase(symbol), data |-> data, lastUpdated |-> now,
            dataRange |-> DataRange(now)])

\* The entry under the symbol's key: << >>, or << entry >>.
StockEntry(store, symbol) ==
  IF StockKey(symbol) \in DOMAIN store THEN << store[StockKey(symbol)] >> ELSE << >>

GetCachedData(symbol) ==
  /\ storage' = GetCached(symbol).store
  /\ last' = [op |-> "getCachedData", symbol |-> symbol,
              purged |-> GetCached(symbol).store # storage,
              returned |-> GetCached(symbol).ret]
  /\ UNCHANGED << now, storeMode, flows, origin, chart >>

SetCachedData(symbol, data) ==
  /\ storage' = SetCached(symbol, data)
  /\ last' = [op |-> "setCachedData", symbol |-> symbol]
  /\ UNCHANGED << now, storeMode, flows, origin, chart >>

\* refreshCacheWithLatest up to its await: the cached series is read (a stale
\* one is purged) and the fetch is started.
\* While a call awaits, `raced` remembers the calls for the same key that
\* returned meanwhile (history): what each had read and what its fetch gave.
\* A call starts only while no awaiting call has MaxOverlap of them.
RefreshStart(caller, symbol) ==
  /\ flows[caller].pc = "idle"
  /\ \A c \in DOMAIN flows :
       flows[c].pc = "awaiting" => Len(flows[c].raced) < MaxOverlap
  /\ storage' = GetCached(symbol).store
  /\ flows' = [flows EXCEPT ![caller] =
                 [pc |-> "awaiting", symbol |-> symbol, cached |-> GetCached(symbol).ret,
                  raced |-> << >>]]
  /\ UNCHANGED << now, storeMode, origin, last, chart >>

\* refreshCacheWithLatest from the await on, with what the fetch gave.
RefreshFinish(caller, outcome) ==
  /\ flows[caller].pc = "awaiting"
  /\ LET symbol == flows[caller].symbol
         cached == flows[caller].cached
         call   == [op |-> "refreshCacheWithLatest", symbol |-> symbol,
                    cachedLive |-> cached # << >>,
                    fetched |-> IF outcome.ok THEN Len(outcome.data) ELSE -1]
     IN  IF ~outcome.ok \/ Len(outcome.data) = 0
           THEN /\ storage' = storage
                /\ last' = call @@ [appended |-> 0, returned |-> FALSE]
         ELSE IF cached = << >>
           THEN /\ storage' = SetCached(symbol, outcome.data)
                /\ last' = call @@ [appended |-> Len(outcome.data), returned |-> TRUE]
         ELSE
           LET toAppend == ToAppend(cached[1].data, outcome.data)
               merged   == SortByTimestamp(cached[1].data \o toAppend)
               updated  == [symbol |-> cached[1].symbol, data |-> merged,
                            lastUpdated |-> now, dataRange |-> DataRange(now)]
           IN  IF Len(toAppend) = 0
                 THEN /\ storage' = storage
                      /\ last' = call @@ [appended |-> 0, returned |-> FALSE]
               ELSE IF storeMode # "ok"
                 THEN /\ storage' = storage
                      /\ last' = call @@ [appended |-> Len(toAppend), returned |-> FALSE]
               ELSE /\ storage' = Put(storage, StockKey(symbol), updated)
                    /\ last' = call @@ [appended |-> Len(toAppend), returned |-> TRUE]
  /\ flows' = [c \in DOMAIN flows |->
                 IF c = caller THEN [pc |-> "idle"]
                 ELSE IF /\ flows[c].pc = "awaiting"
                         /\ StockKey(flows[c].symbol) = StockKey(flows[caller].symbol)
                   THEN [flows[c] EXCEPT !.raced =
                           Append(@, [cached |-> flows[caller].cached, outcome |-> outcome])]
                 ELSE flows[c]]
  /\ UNCHANGED << now, storeMode, origin, chart >>

\* clearCache(symbol?): symbol is << >> when the argument is left out. It has
\* no try: an exception of the store reaches the caller.
ClearCache(symbol) ==
  /\ IF storeMode = "denied"
       THEN /\ storage' = storage
            /\ last' = [op |-> "clearCache", symbol |-> symbol, threw |-> TRUE]
       ELSE /\ storage' =
                 IF symbol # << >>
                   THEN Remove(storage, StockKey(symbol[1]))
                   ELSE RemoveByPrefix(storage, StorageLength(storage) - 1,
                                       Chars["stock_cache_"])
            /\ last' = [op |-> "clearCache", symbol |-> symbol, threw |-> FALSE]
  /\ UNCHANGED << now, storeMode, flows, origin, chart >>

\* What an earlier session of the chart left in localStorage: the raw series of
\* KO and GE (stock_cache_KO, stock_cache_GE) and the drawings of KO's daily
\* chart (drawings:KO:1d).
DrawingsKey(symbol, period) ==
  Chars["drawings"] \o << ":" >> \o symbol \o << ":" >> \o period

SavedDrawings ==
  [v |-> 1, items |-> << [id |-> 1, price |-> 5, color |-> "red", source |-> "user"] >>]

EarlierSession ==
  Put(Put(Put(<< >>, DrawingsKey(<< "K", "O" >>, << "1", "d" >>), SavedDrawings),
          StockKey(<< "K", "O" >>),
          [symbol |-> << "K", "O" >>, data |-> BatchEarly, lastUpdated |-> 0,
           dataRange |-> DataRange(0)]),
      StockKey(<< "G", "E" >>),
      [symbol |-> << "G", "E" >>, data |-> BatchLate, lastUpdated |-> 0,
       dataRange |-> DataRange(0)])

\* chartData with where it came from (history): the stockSymbol and period of
\* the effect run that set it, and whether it is candles or mock data.
ChartData(kind, symbol, period, data) ==
  [kind |-> kind, symbol |-> symbol, period |-> period, data |-> data]

\* The chart before its first effect has run: chartData is [] and isLoading
\* is true (part_002:30-31); the props are those of the first render.
Unmounted ==
  [mounted |-> FALSE, stockSymbol |-> << >>, period |-> "", isLoading |-> TRUE,
   chartData |-> ChartData("none", << >>, "", << >>)]

Init ==
  /\ now = 0
  /\ storage = EarlierSession
  /\ storeMode = "ok"
  /\ flows = [c \in Callers |-> [pc |-> "idle"]]
  /\ origin = << >>
  /\ last = [op |-> "none"]
  /\ chart = Unmounted

TickAmounts == { INDICATOR_CACHE_TTL_MS, INDICATOR_CACHE_TTL_MS + 1 }

\* The indicator cache in use.
Next ==
  \/ \E r \in Requests : GetOrComputeRSI(r)
  \/ \E s \in Symbols : ClearSymbol(s)
  \/ ClearAll
  \/ \E d \in TickAmounts : Tick(d)

Spec == Init /\ [][Next]_vars

\* The symbols whose series the chart loads and refreshes.
LoadedSymbols == { << "k", "o" >>, << "K", "O" >> }

\* The price cache in use.
PriceNext ==
  \/ \E s \in Symbols : GetCachedData(s)
  \/ \E s \in LoadedSymbols, b \in Batches : SetCachedData(s, b)
  \/ \E c \in Callers, s \in LoadedSymbols : RefreshStart(c, s)
  \/ \E c \in Callers, o \in FetchOutcomes : RefreshFinish(c, o)
  \/ \E s \in { << >> } \cup { << x >> : x \in Symbols } : ClearCache(s)
  \/ \E d \in TickAmounts : Tick(d)

PriceSpec == Init /\ [][PriceNext]_vars

\* Both caches over a store that fails: setItem throws ("readonly"), or every
\* access to localStorage throws ("denied").
FaultInit ==
  /\ now = 0
  /\ storage = EarlierSession
  /\ storeMode \in { "readonly", "denied" }
  /\ flows = [c \in Callers |-> [pc |-> "idle"]]
  /\ origin = << >>
  /\ last = [op |-> "none"]
  /\ chart = Unmounted

FaultNext ==
  \/ \E r \in Requests : GetOrComputeRSI(r)
  \/ \E s \in Symbols : ClearSymbol(s)
  \/ ClearAll
  \/ \E s \in Symbols : GetCachedData(s)
  \/ \E s \in Symbols, b \in Batches : SetCachedData(s, b)
  \/ \E c \in Callers, s \in Symbols : RefreshStart(c, s)
  \/ \E c \in Callers, o \in FetchOutcomes : RefreshFinish(c, o)
  \/ \E s \in { << >> } \cup { << x >> : x \in Symbols } : ClearCache(s)
  \/ \E d \in TickAmounts : Tick(d)

FaultSpec == FaultInit /\ [][FaultNext]_vars

\* Two callers refresh the same series at the same time: the chart that shows
\* the symbol and the periodic poll.
RaceCallers == { "chart", "poll" }

\* Upstream has the bars up to 3, and later the bars up to 4.
BatchNext == << Point(3, 6, 8, 5, 7, 90), Point(4, 7, 9, 6, 8, 80) >>

RaceOutcomes ==
  { [ok |-> TRUE, data |-> b] : b \in { << >>, BatchLate, BatchNext } }
    \cup { [ok |-> FALSE] }

RaceInit ==
  /\ now = 0
  /\ storage = EarlierSession
  /\ storeMode = "ok"
  /\ flows = [c \in RaceCallers |-> [pc |-> "idle"]]
  /\ origin = << >>
  /\ last = [op |-> "none"]
  /\ chart = Unmounted

RaceNext ==
  \/ \E c \in RaceCallers, s \in LoadedSymbols : RefreshStart(c, s)
  \/ \E c \in RaceCallers, o \in RaceOutcomes : RefreshFinish(c, o)

RaceSpec == RaceInit /\ [][RaceNext]_vars

\* ------------------------------------------------------------------------
\* Properties of the Indicator Cache (under Spec)
\* ------------------------------------------------------------------------

\* Two OHLC inputs agree on the timestamp, open, high, low and close of every bar.
SameBars(a, b) ==
  /\ Len(a) = Len(b)
  /\ \A i \in 1..Len(a) :
       /\ a[i].timestamp = b[i].timestamp
       /\ a[i].open = b[i].open
       /\ a[i].high = b[i].high
       /\ a[i].low = b[i].low
       /\ a[i].close = b[i].close

\* The age, at the last getOrComputeRSI call, of the entry the call found.
FoundAge == last.at - last.found[1].lastUpdated

LastIsGetOrCompute == last.op = "getOrComputeRSI"

\* C1: every getOrComputeRSI call returns the rsi, signal and crossovers that
\* calculateRSIDataWithOptions returns when called directly on the call's
\* ohlc, options and signalPeriod.
C1_ReturnsDirectResult ==
  LastIsGetOrCompute => last.returned = last.direct

\* C2: with a working store, a getOrComputeRSI call that misses computes and
\* stores its result under its key, and a call with identical inputs made at
\* most 24h after that store finds the entry, is a hit (the engine does not
\* run again) and returns the result of the first.
C2_SecondCallIsHit ==
  /\ (LastIsGetOrCompute /\ ~last.hit) =>
       \E k \in DOMAIN origin \cap DOMAIN storage :
         /\ origin[k] = last.inputs
         /\ storage[k].lastUpdated = last.at
         /\ storage[k].data = last.returned
  /\ ( /\ LastIsGetOrCompute
       /\ last.found # << >>
       /\ last.found[1].from = last.inputs
       /\ FoundAge <= INDICATOR_CACHE_TTL_MS ) =>
       /\ last.hit
       /\ last.returned = ComputedOf[<< last.inputs.ohlc,
                                        << last.inputs.options, last.inputs.signalPeriod >> >>]

C2_Witness ==
  /\ LastIsGetOrCompute
  /\ last.hit
  /\ last.found[1].from = last.inputs
  /\ FoundAge = INDICATOR_CACHE_TTL_MS

\* Requests that differ at most in the volume of their bars derive one key.
VolumeKeysAgree ==
  \A r1 \in Requests : \A r2 \in Requests :
    ( /\ r1.symbol = r2.symbol
      /\ r1.timeframe = r2.timeframe
      /\ r1.options = r2.options
      /\ r1.signalPeriod = r2.signalPeriod
      /\ SameBars(r1.ohlc, r2.ohlc) ) => KeyOf(r1) = KeyOf(r2)

\* C3: two OHLC inputs that differ only in volume derive the same key, and a
\* result stored for one is returned as a hit for the other.
C3_VolumeKeepsKey ==
  /\ VolumeKeysAgree
  /\ ( /\ LastIsGetOrCompute
       /\ last.found # << >>
       /\ last.found[1].from.options = last.inputs.options
       /\ last.found[1].from.signalPeriod = last.inputs.signalPeriod
       /\ SameBars(last.found[1].from.ohlc, last.inputs.ohlc)
       /\ FoundAge <= INDICATOR_CACHE_TTL_MS ) =>
       /\ last.hit
       /\ last.returned = ComputedOf[<< last.found[1].from.ohlc,
                                        << last.found[1].from.options,
                                           last.found[1].from.signalPeriod >> >>]

C3_Witness ==
  /\ LastIsGetOrCompute
  /\ last.hit
  /\ last.found[1].from.ohlc # last.inputs.ohlc
  /\ SameBars(last.found[1].from.ohlc, last.inputs.ohlc)

\* C4: a result stored for one OHLC input is never returned for an input that
\* differs from it in the timestamp, open, high, low or close of a bar or in
\* the number of bars: every hit is served from an entry of the same bars.
C4_DifferentBarsMiss ==
  (LastIsGetOrCompute /\ last.hit) => SameBars(last.found[1].from.ohlc, last.inputs.ohlc)

\* C5: an entry stored at t is a hit at every time up to and including t + 24h
\* and a miss at every later time; no step changes the lastUpdated of an entry
\* except a getOrComputeRSI call that missed because the entry had expired,
\* which writes the time of that call.
C5_ExpiryIgnoresReads ==
  [][ /\ ( last'.op = "getOrComputeRSI" /\ last'.found # << >> ) =>
           ( last'.hit <=>
               last'.at - last'.found[1].lastUpdated <= INDICATOR_CACHE_TTL_MS )
      /\ \A k \in IndicatorKeys(storage) \cap IndicatorKeys(storage') :
           storage'[k].lastUpdated # storage[k].lastUpdated =>
             /\ last'.op = "getOrComputeRSI"
             /\ ~last'.hit
             /\ now - storage[k].lastUpdated > INDICATOR_CACHE_TTL_MS
             /\ storage'[k].lastUpdated = now
    ]_vars

C5_Witness ==
  /\ LastIsGetOrCompute
  /\ ~last.hit
  /\ last.found # << >>
  /\ FoundAge = INDICATOR_CACHE_TTL_MS + 1

\* The keys getOrComputeRSI derives for the requests of a symbol.
KeysOfSymbol ==
  Table([s \in Symbols |->
           { KeyOf(r) : r \in { q \in Requests : ToUpperCase(q.symbol) = ToUpperCase(s) } }])

\* Every key of `kept` is still in the store, with its value; no other key is.
OnlyKept(kept) ==
  /\ DOMAIN storage' = kept
  /\ \A k \in kept : storage'[k] = storage[k]

\* C6: clearSymbol(s) removes every indicator entry whose key symbol is s in
\* upper case and leaves every other key of the store unchanged; clearAll
\* removes every indicator entry and leaves every other key unchanged.
C6_ClearFrame ==
  [][ /\ \A s \in Symbols :
           ClearSymbol(s) => OnlyKept(DOMAIN storage \ KeysOfSymbol[s])
      /\ ClearAll => OnlyKept(DOMAIN storage \ IndicatorKeys(storage))
    ]_vars

C6_Witness ==
  /\ last.op = "clearSymbol"
  /\ last.removed > 0
  /\ IndicatorKeys(storage) # {}
  /\ StockKey(<< "K", "O" >>) \in DOMAIN storage
  /\ DrawingsKey(<< "K", "O" >>, << "1", "d" >>) \in DOMAIN storage

\* ------------------------------------------------------------------------
\* Properties of the Price Cache (under PriceSpec)
\* ------------------------------------------------------------------------

\* No two points of the series have the same timestamp.
NoDuplicateTimestamps(data) ==
  \A i \in 1..Len(data) : \A j \in 1..Len(data) :
    data[i].timestamp = data[j].timestamp => i = j

\* The series is sorted ascending by timestamp.
SortedByTimestamp(data) ==
  \A i \in 1..Len(data) - 1 : data[i].timestamp <= data[i + 1].timestamp

\* The call of `caller` found a live cached series when it started.
CachedLive(caller) == flows[caller].pc = "awaiting" /\ flows[caller].cached # << >>

\* C7: when a live cached series exists and every timestamp of the fetched
\* points already occurs in it, refreshCacheWithLatest returns false and
\* neither of its steps changes the store: the entry keeps its points and its
\* lastUpdated.
C7_NothingNewNoChange ==
  [][ /\ \A c \in Callers : \A s \in Symbols :
           (GetCached(s).ret # << >> /\ RefreshStart(c, s)) => storage' = storage
      /\ \A c \in Callers : \A o \in FetchOutcomes :
           ( /\ CachedLive(c)
             /\ o.ok
             /\ Timestamps(o.data) \subseteq Timestamps(flows[c].cached[1].data)
             /\ RefreshFinish(c, o) ) =>
             /\ last'.returned = FALSE
             /\ storage' = storage
    ]_vars

C7_Witness ==
  /\ last.op = "refreshCacheWithLatest"
  /\ last.cachedLive
  /\ last.fetched > 0
  /\ last.appended = 0
  /\ ~last.returned

\* C8: when a live cached series without duplicate timestamps exists and the
\* fetched batch holds a timestamp not in it, refreshCacheWithLatest returns
\* true and the series stored afterwards is sorted ascending by timestamp and
\* has no two points with the same timestamp.
C8_MergedSortedNoDuplicates ==
  [][ \A c \in Callers : \A o \in FetchOutcomes :
        ( /\ CachedLive(c)
          /\ NoDuplicateTimestamps(flows[c].cached[1].data)
          /\ o.ok
          /\ ~(Timestamps(o.data) \subseteq Timestamps(flows[c].cached[1].data))
          /\ RefreshFinish(c, o) ) =>
          /\ last'.returned = TRUE
          /\ StockKey(flows[c].symbol) \in DOMAIN storage'
          /\ SortedByTimestamp(storage'[StockKey(flows[c].symbol)].data)
          /\ NoDuplicateTimestamps(storage'[StockKey(flows[c].symbol)].data)
    ]_vars

\* C9: getCachedData returns the stored entry exactly when one is present and
\* now - lastUpdated <= 24h, leaving the store as it is; when
\* now - lastUpdated > 24h it returns null and removes the entry, and the
\* symbol's key comes back only through setCachedData or
\* refreshCacheWithLatest.
C9_GetAndPurge ==
  [][ /\ \A s \in Symbols :
           GetCachedData(s) =>
             LET found == StockEntry(storage, s)
             IN  IF found # << >> /\ now - found[1].lastUpdated <= CACHE_EXPIRY
                   THEN last'.returned = found /\ storage' = storage
                 ELSE IF found # << >>
                   THEN /\ last'.returned = << >>
                        /\ DOMAIN storage' = DOMAIN storage \ { StockKey(s) }
                        /\ \A k \in DOMAIN storage' : storage'[k] = storage[k]
                 ELSE last'.returned = << >> /\ storage' = storage
      /\ \A s \in Symbols :
           (StockKey(s) \notin DOMAIN storage /\ StockKey(s) \in DOMAIN storage') =>
             last'.op \in { "setCachedData", "refreshCacheWithLatest" }
    ]_vars

C9_Witness ==
  /\ last.op = "getCachedData"
  /\ last.purged
  /\ last.returned = << >>
  /\ StockKey(last.symbol) \notin DOMAIN storage

\* ------------------------------------------------------------------------
\* Properties of both caches over a failing store (under FaultSpec)
\* ------------------------------------------------------------------------

\* C10: no operation of either cache lets a failure of the store reach its
\* caller: the clear operations return, a read that fails is a miss, a write
\* that fails is dropped, and getOrComputeRSI returns the computed result.
C10_FailuresStayInside ==
  /\ last.op \in { "clearAll", "clearSymbol", "clearCache" } => ~last.threw
  /\ (last.op = "getOrComputeRSI" /\ ~last.hit) => last.returned = last.direct
  /\ (last.op = "getCachedData" /\ storeMode = "denied") => last.returned = << >>
  /\ \A k \in DOMAIN storage :
       k \in DOMAIN EarlierSession /\ storage[k] = EarlierSession[k]

\* ------------------------------------------------------------------------
\* Properties of concurrent refreshes (under RaceSpec)
\* ------------------------------------------------------------------------

\* The series a refreshCacheWithLatest call run without interruption leaves,
\* from the series before it (<< >>: none) and what its fetch gave.
SerialRefresh(series, outcome) ==
  IF ~outcome.ok \/ Len(outcome.data) = 0 THEN series
  ELSE IF series = << >> THEN << outcome.data >>
  ELSE IF Len(ToAppend(series[1], outcome.data)) = 0 THEN series
  ELSE << SortByTimestamp(series[1] \o ToAppend(series[1], outcome.data)) >>

\* The series of an entry that may be absent.
SeriesOf(entry) == IF entry = << >> THEN << >> ELSE << entry[1].data >>

\* C11: when a refreshCacheWithLatest call returns during whose await exactly
\* one other call for the same key, which had read the same cached series,
\* returned, the series stored afterwards is the one that running the two
\* calls one after the other leaves, in one of the two orders.
C11_InterleavingIsSerial ==
  [][ \A c \in DOMAIN flows : \A o \in RaceOutcomes :
        ( /\ flows[c].pc = "awaiting"
          /\ Len(flows[c].raced) = 1
          /\ flows[c].raced[1].cached = flows[c].cached
          /\ RefreshFinish(c, o) ) =>
          LET before == SeriesOf(flows[c].cached)
              other  == flows[c].raced[1].outcome
          IN  SeriesOf(StockEntry(storage', flows[c].symbol)) \in
                { SerialRefresh(SerialRefresh(before, other), o),
                  SerialRefresh(SerialRefresh(before, o), other) }
    ]_vars


\* ------------------------------------------------------------------------
\* StockCacheService.getFilteredData: the raw series as candles
\* ------------------------------------------------------------------------

\* Milliseconds the local clock is ahead of UTC where the chart runs: UTC and
\* Asia/Seoul (neither has daylight saving).
Zones == { 0, 9 * 3600000 }

\* The local calendar day of new Date(timestamp), counted from 1970-01-01.
LocalDay(timestamp, zone) == (timestamp + zone) \div MS_PER_DAY

\* getFullYear(), getMonth() (0 is January) and getDate() of a day counted
\* from 1970-01-01, in the proleptic Gregorian calendar.
CivilFromDays(days) ==
  LET z   == days + 719468
      era == z \div 146097
      doe == z - era * 146097
      yoe == (doe - doe \div 1460 + doe \div 36524 - doe \div 146096) \div 365
      doy == doe - (365 * yoe + yoe \div 4 - yoe \div 100)
      mp  == (5 * doy + 2) \div 153
      d   == doy - (153 * mp + 2) \div 5 + 1
      m   == IF mp < 10 THEN mp + 3 ELSE mp - 9
  IN  [year  |-> yoe + era * 400 + (IF m <= 2 THEN 1 ELSE 0),
       month |-> m - 1,
       date  |-> d]

\* getDay(): 0 is Sunday; 1970-01-01 was a Thursday.
GetDay(days) == (days + 4) % 7

\* `${y}-${m}-${d}`
DateKey(civil) ==
  NumberToString(civil.year) \o << "-" >> \o NumberToString(civil.month)
    \o << "-" >> \o NumberToString(civil.date)

\* groupByDays: dayKey of a point.
DayKey(timestamp, zone) == DateKey(CivilFromDays(LocalDay(timestamp, zone)))

\* A week that starts on its Monday.
WeekStartMonday(days) == days - ((GetDay(days) + 6) % 7)

\* weekStart.setDate(date.getDate() - date.getDay()): the Sunday on or before.
WeekStart(days) == days - GetDay(days)

\* groupByWeeks: weekKey of a point.
WeekKey(timestamp, zone) == DateKey(CivilFromDays(WeekStart(LocalDay(timestamp, zone))))

\* groupByMonths: monthKey of a point.
MonthKey(timestamp, zone) ==
  LET civil == CivilFromDays(LocalDay(timestamp, zone))
  IN  NumberToString(civil.year) \o << "-" >> \o NumberToString(civil.month)

\* The object `grouped` after the forEach: its keys in insertion order, each
\* with the points pushed under it, in the order of data. keys[i] is the key
\* of data[i].
Grouped(data, keys) ==
  LET indices == [i \in 1..Len(data) |-> i]
      firsts  == SelectSeq(indices, LAMBDA i : \A j \in 1..(i - 1) : keys[j] # keys[i])
      Under(k) == SelectSeq(indices, LAMBDA i : keys[i] = k)
  IN  [n \in 1..Len(firsts) |->
         [key |-> keys[firsts[n]],
          points |-> [m \in 1..Len(Under(keys[firsts[n]])) |->
                        data[Under(keys[firsts[n]])[m]]]]]

\* A point counts although it reports no volume.
IsValidPointWithoutVolume(p) == { "open", "high", "low", "close" } \subseteq DOMAIN p

\* p.open !== undefined && ... && p.volume !== undefined
IsValidPoint(p) == { "open", "high", "low", "close", "volume" } \subseteq DOMAIN p

\* p.volume || 0
VolumeOrZero(p) == IF "volume" \in DOMAIN p THEN p.volume ELSE 0

\* Math.max(...) and Math.min(...) of a non-empty set of numbers.
MathMax(S) == CHOOSE x \in S : \A y \in S : y <= x
MathMin(S) == CHOOSE x \in S : \A y \in S : x <= y

\* validPoints.reduce((sum, p) => sum + (p.volume || 0), 0)
RECURSIVE SumVolume(_)
SumVolume(points) ==
  IF Len(points) = 0 THEN 0
  ELSE SumVolume(SubSeq(points, 1, Len(points) - 1)) + VolumeOrZero(points[Len(points)])

\* A candle stamped with the UTC midnight on or before its first point.
CandleTimestampAtUtcMidnight(validPoints) ==
  (validPoints[1].timestamp \div MS_PER_DAY) * MS_PER_DAY

\* const timestamp = validPoints[0].timestamp
CandleTimestamp(validPoints) == validPoints[1].timestamp

\* A candle that closes where its first point closed.
CandleCloseOfFirst(validPoints) == validPoints[1].close

\* const close = validPoints[validPoints.length - 1].close
CandleClose(validPoints) == validPoints[Len(validPoints)].close

\* The candle pushed for one key's points, if any: << >> or << candle >>.
Candlestick(points) ==
  LET group       == SortByTimestamp(points)
      validPoints == SelectSeq(group, IsValidPoint)
  IN  IF Len(validPoints) = 0 THEN << >>
      ELSE << [date      |-> IF "date" \in DOMAIN validPoints[1]
                               THEN validPoints[1].date
                               ELSE IsoDay(CandleTimestamp(validPoints)),
               timestamp |-> CandleTimestamp(validPoints),
               price     |-> CandleClose(validPoints),
               open      |-> validPoints[1].open,
               high      |-> MathMax({ validPoints[i].high : i \in 1..Len(validPoints) }),
               low       |-> MathMin({ validPoints[i].low : i \in 1..Len(validPoints) }),
               close     |-> CandleClose(validPoints),
               volume    |-> SumVolume(validPoints)] >>

\* createCandlesticks: a candle per key that has a valid point, by timestamp.
createCandlesticks(grouped) ==
  SortByTimestamp(Concat([n \in 1..Len(grouped) |-> Candlestick(grouped[n].points)]))

groupByDays(data, zone) ==
  createCandlesticks(Grouped(data, [i \in 1..Len(data) |-> DayKey(data[i].timestamp, zone)]))

groupByWeeks(data, zone) ==
  createCandlesticks(Grouped(data, [i \in 1..Len(data) |-> WeekKey(data[i].timestamp, zone)]))

groupByMonths(data, zone) ==
  createCandlesticks(Grouped(data, [i \in 1..Len(data) |-> MonthKey(data[i].timestamp, zone)]))

\* groupDataByTimeframe, run where the local clock is `zone` ahead of UTC.
groupDataByTimeframe(data, timeframe, zone) ==
  IF Len(data) = 0 THEN << >>
  ELSE LET sortedData == SortByTimestamp(data)
       IN  CASE timeframe = "1d"  -> groupByDays(sortedData, zone)
             [] timeframe = "1w"  -> groupByWeeks(sortedData, zone)
             [] timeframe = "1mo" -> groupByMonths(sortedData, zone)
             [] OTHER             -> groupByDays(sortedData, zone)

\* getFilteredData: null (<< >>) without a live cached series, else its candles.
\* last.read keeps what getCachedData returned.
GetFilteredData(symbol, timeRange, zone) ==
  /\ storage' = GetCached(symbol).store
  /\ last' = [op |-> "getFilteredData", symbol |-> symbol, timeRange |-> timeRange,
              zone |-> zone, read |-> GetCached(symbol).ret,
              returned |-> IF GetCached(symbol).ret = << >> THEN << >>
                           ELSE << groupDataByTimeframe(GetCached(symbol).ret[1].data,
                                                        timeRange, zone) >>]
  /\ UNCHANGED << now, storeMode, flows, origin, chart >>

\* The longest raw series the chart has stored.
MaxPoints == 3

\* Raw points around New Year 1970; prices are in tenths of the currency unit.
\* 1969-12-31 (Wednesday) 10:00 UTC.
WedMorning == Point(-50400000, 100, 120, 90, 110, 100)
\* 1969-12-31 20:00 UTC, which is 1970-01-01 05:00 in Seoul.
WedEvening == Point(-14400000, 110, 130, 100, 120, 150)
\* 1970-01-01 (Thursday) 12:00 UTC, as two feeds report it.
ThuNoon    == Point(43200000, 120, 120, 110, 115, 50)
ThuNoonToo == Point(43200000, 125, 140, 105, 130, 60)
\* 1970-01-03 (Saturday) 20:00 UTC, which is Sunday 05:00 in Seoul.
SatEvening == Point(244800000, 130, 150, 120, 140, 70)
\* 1970-01-04 (Sunday) 12:00 UTC.
SunNoon    == Point(302400000, 140, 160, 135, 150, 80)
\* Partial records of 1970-01-01: one without close, one without volume.
ThuNoClose  == [timestamp |-> 46800000, price |-> 999, open |-> 999, high |-> 999,
                low |-> 1, volume |-> 999]
ThuNoVolume == [timestamp |-> 39600000, price |-> 998, open |-> 998, high |-> 998,
                low |-> 2, close |-> 998]
\* Corrupt records of 1970-01-02 (Friday): a negative volume, a high under the open.
FriNegative == Point(129600000, 120, 125, 115, 120, -500)
FriLowHigh  == Point(133200000, 120, 110, 105, 108, 40)

RawPoints ==
  { WedMorning, WedEvening, ThuNoon, ThuNoonToo, SatEvening, SunNoon,
    ThuNoClose, ThuNoVolume, FriNegative, FriLowHigh }

\* Three points of 1970-01-01, in UTC and in Seoul: 01:00, 03:00 and 05:00 UTC.
IntradayThursday ==
  << Point(3600000, 100, 120, 90, 110, 100), Point(10800000, 110, 130, 100, 120, 150),
     Point(18000000, 120, 120, 110, 115, 50) >>

\* The series an earlier session may have stored, in any order.
RawSeries ==
  { s \in UNION { [1..n -> RawPoints] : n \in 0..MaxPoints } :
      \A i, j \in 1..Len(s) : i # j => s[i] # s[j] }
  \cup { IntradayThursday }

AggTimeframes == { "1d", "1w", "1mo" }

\* The chart opens on the series of KO an earlier session stored.
AggInit ==
  /\ now = 0
  /\ \E series \in RawSeries :
       storage = Put(EarlierSession, StockKey(<< "K", "O" >>),
                     [symbol |-> << "K", "O" >>, data |-> series, lastUpdated |-> 0,
                      dataRange |-> DataRange(0)])
  /\ storeMode = "ok"
  /\ flows = [c \in Callers |-> [pc |-> "idle"]]
  /\ origin = << >>
  /\ last = [op |-> "none"]
  /\ chart = Unmounted

\* The chart asks for candles, now or a day later.
AggNext ==
  \/ \E s \in LoadedSymbols, t \in AggTimeframes, z \in Zones : GetFilteredData(s, t, z)
  \/ Tick(CACHE_EXPIRY + 1)

AggSpec == AggInit /\ [][AggNext]_vars

\* ------------------------------------------------------------------------
\* Claims about the candles (AggSpec)
\* ------------------------------------------------------------------------

\* The bucket key the timeframe gives a timestamp.
BucketKey(timestamp, timeRange, zone) ==
  CASE timeRange = "1w"  -> WeekKey(timestamp, zone)
    [] timeRange = "1mo" -> MonthKey(timestamp, zone)
    [] OTHER             -> DayKey(timestamp, zone)

\* getFilteredData has just returned candles.
GaveCandles == last.op = "getFilteredData" /\ last.returned # << >>

\* The positions of the valid points of a series.
ValidAt(data) == { i \in 1..Len(data) : IsValidPoint(data[i]) }

\* The sum of the volumes at a set of positions.
RECURSIVE VolumeAt(_, _)
VolumeAt(data, S) ==
  IF S = { } THEN 0
  ELSE LET i == CHOOSE x \in S : TRUE
       IN  data[i].volume + VolumeAt(data, S \ { i })

\* C12: every bucket with a valid point has a candle whose open is the open of
\* the valid point of smallest timestamp (the first of them in the series when
\* several share it), whose close is the close of the valid point of largest
\* timestamp (the last of them in the series), whose high is the maximum of the
\* valid points' highs, whose low is the minimum of their lows and whose volume
\* is the sum of their volumes; the three points of IntradayThursday give the
\* single day candle open 100, high 130, low 90, close 115, volume 300.
C12_CandleFields ==
  GaveCandles =>
    LET data    == last.read[1].data
        candles == last.returned[1]
        Key(t)  == BucketKey(t, last.timeRange, last.zone)
    IN  /\ \A k \in { Key(data[i].timestamp) : i \in ValidAt(data) } :
             LET members  == { i \in ValidAt(data) : Key(data[i].timestamp) = k }
                 firstTs  == MathMin({ data[i].timestamp : i \in members })
                 lastTs   == MathMax({ data[i].timestamp : i \in members })
                 earliest == MathMin({ i \in members : data[i].timestamp = firstTs })
                 latest   == MathMax({ i \in members : data[i].timestamp = lastTs })
             IN  \E n \in 1..Len(candles) :
                   /\ Key(candles[n].timestamp) = k
                   /\ candles[n].open = data[earliest].open
                   /\ candles[n].close = data[latest].close
                   /\ candles[n].high = MathMax({ data[i].high : i \in members })
                   /\ candles[n].low = MathMin({ data[i].low : i \in members })
                   /\ candles[n].volume = VolumeAt(data, members)
        /\ (data = IntradayThursday /\ last.timeRange = "1d") =>
             /\ Len(candles) = 1
             /\ candles[1].open = 100 /\ candles[1].high = 130 /\ candles[1].low = 90
             /\ candles[1].close = 115 /\ candles[1].volume = 300

\* The day candle of IntradayThursday has been returned.
C12_Witness ==
  /\ GaveCandles
  /\ last.read[1].data = IntradayThursday
  /\ last.timeRange = "1d"
  /\ Len(last.returned[1]) = 1

\* Two timestamps fall in the same calendar bucket of the local clock: the same
\* year, month and day; the same week counted from its Sunday; the same year
\* and month.
SameBucket(t1, t2, timeRange, zone) ==
  LET d1 == (t1 + zone) \div MS_PER_DAY
      d2 == (t2 + zone) \div MS_PER_DAY
      c1 == CivilFromDays(d1)
      c2 == CivilFromDays(d2)
  IN  CASE timeRange = "1w"  -> d1 - ((d1 + 4) % 7) = d2 - ((d2 + 4) % 7)
        [] timeRange = "1mo" -> c1.year = c2.year /\ c1.month = c2.month
        [] OTHER             -> c1 = c2

\* C13: whatever the order of the stored series and whichever the timeframe,
\* the candles come in strictly ascending timestamp, there is exactly one candle
\* for each bucket that has a valid point and none else, and two valid points
\* have the same bucket key exactly when they fall in the same local day, the
\* same week from Sunday, or the same year and month.
C13_OneCandlePerBucket ==
  GaveCandles =>
    LET data    == last.read[1].data
        candles == last.returned[1]
        Key(t)  == BucketKey(t, last.timeRange, last.zone)
        valid   == ValidAt(data)
    IN  /\ \A n \in 1..(Len(candles) - 1) : candles[n].timestamp < candles[n + 1].timestamp
        /\ \A i \in valid :
             Cardinality({ n \in 1..Len(candles) :
                             SameBucket(candles[n].timestamp, data[i].timestamp,
                                        last.timeRange, last.zone) }) = 1
        /\ \A n \in 1..Len(candles) :
             \E i \in valid : SameBucket(candles[n].timestamp, data[i].timestamp,
                                         last.timeRange, last.zone)
        /\ \A i, j \in valid :
             Key(data[i].timestamp) = Key(data[j].timestamp)
               <=> SameBucket(data[i].timestamp, data[j].timestamp,
                              last.timeRange, last.zone)

\* Week candles in Seoul of a series given newest first: Sunday noon UTC and
\* Saturday evening UTC share the week of Sunday 1970-01-04 there, Wednesday
\* 1969-12-31 is in the week before.
C13_Witness ==
  /\ GaveCandles
  /\ last.read[1].data = << SunNoon, SatEvening, WedMorning >>
  /\ last.timeRange = "1w"
  /\ last.zone # 0
  /\ Len(last.returned[1]) = 2

\* The week candles made from the day candles of a series.
WeeksOfDays(data, zone) ==
  groupDataByTimeframe(groupDataByTimeframe(data, "1d", zone), "1w", zone)

\* C14: the week candles made from the day candles of a series are as many as
\* the week candles made from the series itself and, week by week, have the
\* same high, low and volume.
C14_DaysThenWeeks ==
  (GaveCandles /\ last.timeRange = "1w") =>
    LET direct == last.returned[1]
        twice  == WeeksOfDays(last.read[1].data, last.zone)
    IN  /\ Len(twice) = Len(direct)
        /\ \A n \in 1..Len(direct) :
             /\ SameBucket(twice[n].timestamp, direct[n].timestamp, "1w", last.zone)
             /\ twice[n].high = direct[n].high
             /\ twice[n].low = direct[n].low
             /\ twice[n].volume = direct[n].volume

\* Week candles of three points on three days, two of them in one week.
C14_Witness ==
  /\ GaveCandles
  /\ last.timeRange = "1w"
  /\ last.read[1].data = << SunNoon, WedMorning, ThuNoonToo >>
  /\ Len(groupDataByTimeframe(last.read[1].data, "1d", last.zone)) = 3
  /\ Len(last.returned[1]) = 2

\* C15: every candle has its low at or under its open and its close, and its
\* high at or over them.
C15_CandleBounds ==
  GaveCandles =>
    \A n \in 1..Len(last.returned[1]) :
      LET candle == last.returned[1][n]
      IN  /\ candle.low <= candle.open /\ candle.low <= candle.close
          /\ candle.high >= candle.open /\ candle.high >= candle.close

\* C16: every candle has a volume of zero or more, also when a point of its
\* bucket reports a negative volume.
C16_VolumeNonNegative ==
  GaveCandles =>
    \A n \in 1..Len(last.returned[1]) : last.returned[1][n].volume >= 0

\* A partial record: a point without one of open, high, low, close, volume.
Lacks(p) == \E f \in { "open", "high", "low", "close", "volume" } : f \notin DOMAIN p

Reorderings(data) ==
  { [i \in 1..Len(data) |-> data[f[i]]] :
      f \in { g \in [1..Len(data) -> 1..Len(data)] :
                \A i, j \in 1..Len(data) : i # j => g[i] # g[j] } }

\* C18: the candles of a series are the candles of each series that holds the
\* same points in another order, also when points share a timestamp.
C18_OrderIndependent ==
  GaveCandles =>
    \A other \in Reorderings(last.read[1].data) :
      groupDataByTimeframe(other, last.timeRange, last.zone) = last.returned[1]

\* ------------------------------------------------------------------------
\* The RSI engine called directly
\* ------------------------------------------------------------------------

\* A bar around a close.
RsiBar(t, c) == Bar(t, c, c + 2, c - 1, c, 100)

BarsOf(closes) == [i \in 1..Len(closes) |-> RsiBar(i, closes[i])]

\* The closes of the series the chart holds: none, flat, rising, falling, one
\* that rises and falls, and one that falls steeply and then slowly.
CloseInputs ==
  { << >>, << 5, 5 >>, << 5, 5, 5, 5 >>, << 1, 2, 3, 5 >>, << 5, 3, 2, 1 >>,
    << 2, 3, 36, 1, 1 >>, << 80, 2, 1 >> }

RsiPeriods == { 1, 2, 3 }

\* RSIOptions: the defaults, or period, source, smoothing and clampEdges set.
RsiOptionInputs ==
  { << >> } \cup
  { << << "period", p >>, << "source", src >>, << "smoothing", m >>, << "clampEdges", c >> >> :
      p \in RsiPeriods, src \in { "close", "hlc3", "hl2", "ohlc4" },
      m \in { "wilder", "ema", "sma" }, c \in BOOLEAN }

RsiSignalPeriods == { 2 }

\* The chart holds the bars of KO an earlier session stored.
RsiInit ==
  /\ now = 0
  /\ \E closes \in CloseInputs :
       storage = Put(EarlierSession, StockKey(<< "K", "O" >>),
                     [symbol |-> << "K", "O" >>, data |-> BarsOf(closes), lastUpdated |-> 0,
                      dataRange |-> DataRange(0)])
  /\ storeMode = "ok"
  /\ flows = [c \in Callers |-> [pc |-> "idle"]]
  /\ origin = << >>
  /\ last = [op |-> "none"]
  /\ chart = Unmounted

\* The bars the chart holds.
HeldBars == storage[StockKey(<< "K", "O" >>)].data

\* The chart asks for the RSI line of its bars.
CalculateRSI(opts) ==
  /\ last' = [op |-> "calculateRSIWithOptions", ohlc |-> HeldBars, opts |-> opts,
              returned |-> calculateRSIWithOptions(HeldBars, opts)]
  /\ UNCHANGED << now, storage, storeMode, flows, origin, chart >>

\* The chart asks for the RSI line, its signal line and their crossovers.
CalculateRSIData(rsiOpts, signalPeriod) ==
  /\ last' = [op |-> "calculateRSIDataWithOptions", ohlc |-> HeldBars, opts |-> rsiOpts,
              signalPeriod |-> signalPeriod,
              returned |-> calculateRSIDataWithOptions(HeldBars, rsiOpts, signalPeriod)]
  /\ UNCHANGED << now, storage, storeMode, flows, origin, chart >>

\* closePrices = chartData.map(d => d.close)
ClosePrices(bars) == [i \in 1..Len(bars) |-> RInt(bars[i].close)]

\* The chart's own path: calculateRSIData on the closes of its bars.
CalculateRSIDataOfCloses(rsiPeriod, signalPeriod) ==
  /\ last' = [op |-> "calculateRSIData", ohlc |-> HeldBars, rsiPeriod |-> rsiPeriod,
              signalPeriod |-> signalPeriod,
              returned |-> calculateRSIData(ClosePrices(HeldBars), rsiPeriod, signalPeriod)]
  /\ UNCHANGED << now, storage, storeMode, flows, origin, chart >>

RsiNext ==
  \/ \E opts \in RsiOptionInputs : CalculateRSI(opts)
  \/ \E opts \in RsiOptionInputs, sp \in RsiSignalPeriods : CalculateRSIData(opts, sp)
  \/ \E p \in RsiPeriods, sp \in RsiSignalPeriods : CalculateRSIDataOfCloses(p, sp)

RsiSpec == RsiInit /\ [][RsiNext]_vars

\* ------------------------------------------------------------------------
\* Claims about the RSI engine (RsiSpec)
\* ------------------------------------------------------------------------

\* C19: for each smoothing mode, price source and period from 1 on,
\* calculateRSIWithOptions on n bars returns n - period values when n > period
\* and the empty sequence when n <= period, n = 0 included; and
\* calculateRSIDataWithOptions then returns empty rsi, signal and crossovers.
C19_LengthOrEmpty ==
  LET n      == Len(last.ohlc)
      period == FieldOr(last.opts, "period", 14)
  IN  /\ last.op = "calculateRSIWithOptions" =>
           Len(last.returned) = IF n > period THEN n - period ELSE 0
      /\ last.op = "calculateRSIDataWithOptions" =>
           /\ Len(last.returned.rsi) = IF n > period THEN n - period ELSE 0
           /\ n <= period =>
                last.returned = [rsi |-> << >>, signal |-> << >>, crossovers |-> << >>]

\* Five bars and period 2 under sma: three values.
C19_Witness ==
  /\ last.op = "calculateRSIWithOptions"
  /\ Len(last.ohlc) = 5
  /\ FieldOr(last.opts, "period", 14) = 2
  /\ FieldOr(last.opts, "smoothing", "wilder") = "sma"
  /\ Len(last.returned) = 3

\* C20: every value calculateRSIWithOptions returns is finite and lies
\* between 0 and 100, under each smoothing mode, with and without clampEdges.
C20_ValuesInRange ==
  last.op = "calculateRSIWithOptions" =>
    \A k \in 1..Len(last.returned) :
      /\ last.returned[k][2] # 0
      /\ RLeq(RZero, last.returned[k])
      /\ RLeq(last.returned[k], RInt(100))

\* The source prices of the last call's bars.
SourcePrices == mapSource(last.ohlc, FieldOr(last.opts, "source", "close"))

StrictlyIncreasing(xs) == \A i \in 1..(Len(xs) - 1) : RLess(xs[i], xs[i + 1])

StrictlyDecreasing(xs) == \A i \in 1..(Len(xs) - 1) : RLess(xs[i + 1], xs[i])

AllEqual(xs, v) == \A k \in 1..Len(xs) : xs[k] = v

\* A call of calculateRSIWithOptions with clampEdges on more than period bars.
ClampedCall ==
  /\ last.op = "calculateRSIWithOptions"
  /\ FieldOr(last.opts, "clampEdges", FALSE)
  /\ Len(last.ohlc) > FieldOr(last.opts, "period", 14)

\* C21: with clampEdges = true, under every smoothing mode, more than period
\* bars with strictly increasing source prices give values that are all
\* exactly 100, and with strictly decreasing source prices values that are all
\* exactly 0.
C21_MonotoneClamped ==
  ClampedCall =>
    /\ StrictlyIncreasing(SourcePrices) => AllEqual(last.returned, RInt(100))
    /\ StrictlyDecreasing(SourcePrices) => AllEqual(last.returned, RZero)

\* The parts of C21 that do hold: rising prices under every mode, and falling
\* prices under wilder and ema.
C21_RisingOrAveraged ==
  ClampedCall =>
    /\ StrictlyIncreasing(SourcePrices) => AllEqual(last.returned, RInt(100))
    /\ (StrictlyDecreasing(SourcePrices)
        /\ FieldOr(last.opts, "smoothing", "wilder") # "sma") =>
           AllEqual(last.returned, RZero)

\* Exact arithmetic on the values, to state what a result should be.
ExactAdd(a, b) == Rat((a[1] * b[2]) + (b[1] * a[2]), a[2] * b[2])

ExactSub(a, b) == Rat((a[1] * b[2]) - (b[1] * a[2]), a[2] * b[2])

ExactMul(a, b) == Rat(a[1] * b[1], a[2] * b[2])

Magnitude(a) == << Abs(a[1]), a[2] >>

IsFinite(a) == a[2] # 0

\* rsi[k], ..., rsi[k + p - 1], k counted from 0.
Window(rsi, k, p) == [j \in 1..p |-> rsi[k + j]]

RECURSIVE ExactSum(_, _)
ExactSum(xs, n) == IF n = 0 THEN RZero ELSE ExactAdd(ExactSum(xs, n - 1), xs[n])

RECURSIVE ExactMagnitudeSum(_, _)
ExactMagnitudeSum(xs, n) ==
  IF n = 0 THEN RZero ELSE ExactAdd(ExactMagnitudeSum(xs, n - 1), Magnitude(xs[n]))

\* The relative error p roundings to nearest can add up to: (1 + 2^-m)^p - 1,
\* m the number of significand bits.
RoundingSlack(p) ==
  Rat((2^MantissaBits + 1)^p - 2^(MantissaBits * p), 2^(MantissaBits * p))

\* v is the arithmetic mean of xs, as far as p - 1 rounded additions and one
\* rounded division can tell.
IsMeanOf(v, xs) ==
  RLeq(Magnitude(ExactSub(ExactMul(v, << Len(xs), 1 >>), ExactSum(xs, Len(xs)))),
       ExactMul(RoundingSlack(Len(xs)), ExactMagnitudeSum(xs, Len(xs))))

\* A call that got as far as calculateSignal.
SignalCall == last.op = "calculateRSIDataWithOptions" /\ Len(last.returned.rsi) > 0

\* C22: calculateSignal(rsi, p) returns rsi.length - p + 1 values when
\* rsi.length >= p and none otherwise, and its k-th value (k from 0) is the
\* arithmetic mean of rsi[k], ..., rsi[k + p - 1].
C22_SignalIsWindowMean ==
  SignalCall =>
    LET rsi    == last.returned.rsi
        signal == last.returned.signal
        p      == last.signalPeriod
    IN  /\ Len(signal) = IF Len(rsi) >= p THEN Len(rsi) - p + 1 ELSE 0
        /\ \A k \in 0..(Len(signal) - 1) :
             (\A j \in 1..p : IsFinite(rsi[k + j])) =>
               IsMeanOf(signal[k + 1], Window(rsi, k, p))

\* A line of four finite values and its signal of three, one of them strictly
\* between the two values of its window; and (in another call) a line too
\* short for one window.
C22_Witness ==
  /\ SignalCall
  /\ Len(last.returned.rsi) = 4
  /\ Len(last.returned.signal) = 3
  /\ \A j \in 1..4 : IsFinite(last.returned.rsi[j])
  /\ \E k \in 1..3 :
       /\ RLess(last.returned.rsi[k + 1], last.returned.signal[k])
       /\ RLess(last.returned.signal[k], last.returned.rsi[k])

C22_WitnessShort ==
  /\ SignalCall
  /\ Len(last.returned.rsi) < last.signalPeriod
  /\ last.returned.signal = << >>

\* The signal value of the bar of rsi[i] (i from 0): signal[k] belongs to the
\* bar of rsi[k + p - 1].
SignalOfBar(signal, p, i) == signal[(i - (p - 1)) + 1]

\* rsi[i], i from 0.
RsiOfBar(rsi, i) == rsi[i + 1]

CrossesUp(rsi, signal, p, i) ==
  /\ RLeq(RsiOfBar(rsi, i - 1), SignalOfBar(signal, p, i - 1))
  /\ RLess(SignalOfBar(signal, p, i), RsiOfBar(rsi, i))

CrossesDown(rsi, signal, p, i) ==
  /\ RLeq(SignalOfBar(signal, p, i - 1), RsiOfBar(rsi, i - 1))
  /\ RLess(RsiOfBar(rsi, i), SignalOfBar(signal, p, i))

HasEvent(events, i, type) == \E n \in 1..Len(events) : events[n] = [time |-> i, type |-> type]

\* C23: detectCrossovers emits a bullish event with index i, counted in the
\* RSI array, exactly when rsi[i-1] <= the signal value of bar i-1 and rsi[i] >
\* the signal value of bar i, and a bearish event exactly when rsi[i-1] >= and
\* rsi[i] < those values; no index carries both kinds, and the event indices
\* are strictly increasing and lie inside the RSI array.
C23_CrossoversAligned ==
  SignalCall =>
    LET rsi    == last.returned.rsi
        signal == last.returned.signal
        events == last.returned.crossovers
        p      == last.signalPeriod
    IN  /\ \A i \in p..(Len(rsi) - 1) :
             /\ HasEvent(events, i, "bullish") <=> CrossesUp(rsi, signal, p, i)
             /\ HasEvent(events, i, "bearish") <=> CrossesDown(rsi, signal, p, i)
             /\ ~(HasEvent(events, i, "bullish") /\ HasEvent(events, i, "bearish"))
        /\ \A n \in 1..Len(events) :
             /\ events[n].time \in p..(Len(rsi) - 1)
             /\ events[n].type \in { "bullish", "bearish" }
        /\ \A n \in 1..(Len(events) - 1) : events[n].time < events[n + 1].time

\* A line whose signal (period 2) it crosses upwards at one bar and downwards
\* at another.
C23_Witness ==
  /\ SignalCall
  /\ last.signalPeriod = 2
  /\ \E i, j \in 2..(Len(last.returned.rsi) - 1) :
       /\ HasEvent(last.returned.crossovers, i, "bullish")
       /\ HasEvent(last.returned.crossovers, j, "bearish")

\* ------------------------------------------------------------------------
\* More properties of the Price Cache (under PriceSpec)
\* ------------------------------------------------------------------------

\* The keys of the stored raw series.
StockKeys(store) == { k \in DOMAIN store : StartsWith(k, Chars["stock_cache_"]) }

\* C24: in every state reachable through setCachedData and
\* refreshCacheWithLatest with arbitrary batches, the series stored for a
\* symbol has no two points with the same timestamp.
C24_StoredTimestampsDistinct ==
  \A k \in StockKeys(storage) : NoDuplicateTimestamps(storage[k].data)

\* The points of a series, as a set.
PointsOf(data) == { data[i] : i \in 1..Len(data) }

\* How often the point p occurs in a series.
Occurrences(data, p) == Cardinality({ j \in 1..Len(data) : data[j] = p })

\* C25: refreshCacheWithLatest is append-only on a live cached series: every
\* point stored before the call is stored with the same field values after
\* it, and a fresh point whose timestamp the series already holds is discarded
\* even when its other fields differ. (The call is taken without another
\* operation on the entry during its await.)
C25_AppendOnly ==
  [][ \A c \in Callers : \A o \in FetchOutcomes :
        ( /\ CachedLive(c)
          /\ StockEntry(storage, flows[c].symbol) = flows[c].cached
          /\ RefreshFinish(c, o) ) =>
          LET before == flows[c].cached[1].data
              after  == StockEntry(storage', flows[c].symbol)
          IN  /\ after # << >>
              /\ \A p \in PointsOf(before) :
                   Occurrences(after[1].data, p) >= Occurrences(before, p)
              /\ \A q \in PointsOf(after[1].data) :
                   q.timestamp \in Timestamps(before) => q \in PointsOf(before)
    ]_vars

\* KO's series (timestamps 1, 2) was refreshed with a batch holding 2 again
\* with another close and volume, and the new 3: one point was appended and
\* the stored point of 2 is the old one.
C25_Witness ==
  /\ last.op = "refreshCacheWithLatest"
  /\ last.cachedLive
  /\ last.fetched = 2
  /\ last.appended = 1
  /\ last.returned
  /\ StockKey(last.symbol) \in DOMAIN storage
  /\ PointsOf(storage[StockKey(last.symbol)].data) =
       PointsOf(BatchEarly) \cup { Point(3, 6, 8, 5, 7, 90) }

\* ------------------------------------------------------------------------
\* More claims about the RSI engine (RsiSpec)
\* ------------------------------------------------------------------------

\* A call of calculateRSIWithOptions in sma mode on more than period bars.
SmaCall ==
  /\ last.op = "calculateRSIWithOptions"
  /\ FieldOr(last.opts, "smoothing", "wilder") = "sma"
  /\ Len(last.ohlc) > FieldOr(last.opts, "period", 14)

\* The averages the sma loop uses in round i are those of the rolling sums:
\* the value it pushes is the one NextRsiValue gives for them.
SmaUsesRollingSums ==
  SmaCall =>
    LET period == FieldOr(last.opts, "period", 14)
        gains  == Gains(SourcePrices)
        losses == Losses(SourcePrices)
    IN  \A i \in period..(Len(gains) - 1) :
          last.returned[(i - period) + 2] =
            NextRsiValue(FieldOr(last.opts, "clampEdges", FALSE),
                         RDiv(RollingSumAt(gains, period, i), RInt(period)),
                         RDiv(RollingSumAt(losses, period, i), RInt(period)))

\* C26: in sma mode, at every bar after the first RSI value, the average gain
\* and average loss the engine uses (rolling sums: add the newest, subtract
\* the oldest) are the arithmetic means of the last `period` gains and the
\* last `period` losses ending at that bar.
C26_SmaAveragesAreWindowMeans ==
  SmaCall =>
    LET period == FieldOr(last.opts, "period", 14)
        gains  == Gains(SourcePrices)
        losses == Losses(SourcePrices)
    IN  \A i \in period..(Len(gains) - 1) :
          /\ IsMeanOf(RDiv(RollingSumAt(gains, period, i), RInt(period)),
                      Window(gains, (i - period) + 1, period))
          /\ IsMeanOf(RDiv(RollingSumAt(losses, period, i), RInt(period)),
                      Window(losses, (i - period) + 1, period))

\* ------------------------------------------------------------------------
\* More properties of the aggregator (under AggSpec)
\* ------------------------------------------------------------------------

\* The first local day of the bucket of a local day.
BucketStartDay(days, timeRange) ==
  CASE timeRange = "1w"  -> WeekStart(days)
    [] timeRange = "1mo" -> days - (CivilFromDays(days).date - 1)
    [] OTHER             -> days

\* The instant the bucket of a timestamp starts: local midnight of its day, of
\* its week's Sunday, or of the first of its month.
BucketStart(timestamp, timeRange, zone) ==
  (BucketStartDay(LocalDay(timestamp, zone), timeRange) * MS_PER_DAY) - zone

\* C27: the timestamp of every candle the aggregator emits is the start of its
\* bucket (of the local day, of the week's Sunday, or of the month), so it does
\* not depend on which points of the bucket are present.
C27_TimestampIsBucketStart ==
  GaveCandles =>
    \A n \in 1..Len(last.returned[1]) :
      last.returned[1][n].timestamp =
        BucketStart(last.returned[1][n].timestamp, last.timeRange, last.zone)

\* What the code does: a candle's timestamp is that of a valid point of the
\* series, the earliest one of its bucket.
CandleTimestampIsFirstPoint ==
  GaveCandles =>
    \A n \in 1..Len(last.returned[1]) :
      LET data    == last.read[1].data
          members == { i \in ValidAt(data) :
                         SameBucket(data[i].timestamp, last.returned[1][n].timestamp,
                                    last.timeRange, last.zone) }
      IN  /\ members # { }
          /\ last.returned[1][n].timestamp = MathMin({ data[i].timestamp : i \in members })

\* ------------------------------------------------------------------------
\* The two RSI paths (RsiSpec)
\* ------------------------------------------------------------------------

\* The options that name what calculateRSIData does.
WilderCloseOptions(rsiPeriod) ==
  << << "period", rsiPeriod >>, << "source", "close" >>, << "smoothing", "wilder" >> >>

\* C28: calculateRSIData(closes, rsiPeriod, signalPeriod), the path the chart
\* uses, returns the same rsi, signal and crossovers as
\* calculateRSIDataWithOptions on bars with those closes with options
\* {period: rsiPeriod, source: close, smoothing: wilder} and the same
\* signalPeriod, inputs shorter than rsiPeriod + signalPeriod and inputs whose
\* average loss is 0 included.
C28_SamePaths ==
  last.op = "calculateRSIData" =>
    last.returned =
      calculateRSIDataWithOptions(last.ohlc, WilderCloseOptions(last.rsiPeriod),
                                  last.signalPeriod)

\* The two paths agree on their lengths once there are rsiPeriod +
\* signalPeriod closes.
SamePathsWhenLongEnough ==
  (last.op = "calculateRSIData" /\ Len(last.ohlc) >= last.rsiPeriod + last.signalPeriod) =>
    /\ Len(last.returned.rsi) =
         Len(calculateRSIWithOptions(last.ohlc, WilderCloseOptions(last.rsiPeriod)))
    /\ Len(last.returned.signal) = (Len(last.returned.rsi) - last.signalPeriod) + 1

\* ------------------------------------------------------------------------
\* refreshCacheWithLatest and its result (under FaultSpec and PriceSpec)
\* ------------------------------------------------------------------------

\* The step's call returned true only with every fetched timestamp stored.
TrueOnlyIfStored(c, o) ==
  last'.returned = TRUE =>
    /\ o.ok
    /\ StockEntry(storage', flows[c].symbol) # << >>
    /\ Timestamps(o.data) \subseteq
         Timestamps(StockEntry(storage', flows[c].symbol)[1].data)

\* C29: refreshCacheWithLatest returns true only if, after the call, the series
\* stored for the symbol contains the timestamp of every fetched point; when
\* the fetch fails or returns no points, or when the write to the store fails,
\* it returns false and a live cached series is left unchanged.
C29_TrueOnlyIfStored ==
  [][ \A c \in Callers : \A o \in FetchOutcomes :
        (flows[c].pc = "awaiting" /\ RefreshFinish(c, o)) =>
          /\ TrueOnlyIfStored(c, o)
          /\ (~o.ok \/ Len(o.data) = 0 \/ storeMode # "ok") =>
               /\ last'.returned = FALSE
               /\ storage' = storage
    ]_vars

\* ------------------------------------------------------------------------
\* StockChart: the effect that loads the chart's data (part_002)
\* ------------------------------------------------------------------------

\* Effect runs whose fetch or background refresh can be pending at once.
MaxRuns == 2

ChartRuns == 1..MaxRuns

\* The symbols and periods the user switches between.
ChartSymbols == { << "K", "O" >>, << "G", "E" >> }

ChartPeriods == { "1d", "1w" }

\* The chart's browser runs in UTC.
ChartZone == 0

\* What getChartData gives the chart: a rejection, no points, or the bars 2, 3.
ChartOutcomes ==
  { [ok |-> FALSE], [ok |-> TRUE, data |-> << >>], [ok |-> TRUE, data |-> BatchLate] }

\* point.x || point.price
OrPrice(point, field) ==
  IF field \in DOMAIN point /\ point[field] # 0 THEN point[field] ELSE point.price

\* formatChartData, without the label `date`, whose text depends on the locale.
formatChartData(data, period) ==
  [i \in 1..Len(data) |->
     [value     |-> OrPrice(data[i], "close"),
      timestamp |-> data[i].timestamp,
      open      |-> OrPrice(data[i], "open"),
      high      |-> OrPrice(data[i], "high"),
      low       |-> OrPrice(data[i], "low"),
      close     |-> OrPrice(data[i], "close"),
      volume    |-> Abs(VolumeOrZero(data[i]))]]

\* getFilteredData on what getCachedData returned: null (<< >>) or the candles.
CandlesOf(ret, period) ==
  IF ret = << >> THEN << >>
  ELSE << groupDataByTimeframe(ret[1].data, period, ChartZone) >>

\* getCachedData on a store the call has just written: the entry, if live.
LiveEntry(store, symbol) ==
  IF StockEntry(store, symbol) = << >> THEN << >>
  ELSE IF now - StockEntry(store, symbol)[1].lastUpdated > CACHE_EXPIRY THEN << >>
  ELSE StockEntry(store, symbol)

\* refreshCacheWithLatest from its await on: the store after it and its result.
RefreshOutcome(symbol, cached, outcome) ==
  IF ~outcome.ok \/ Len(outcome.data) = 0 THEN [store |-> storage, returned |-> FALSE]
  ELSE IF cached = << >>
    THEN [store |-> SetCached(symbol, outcome.data), returned |-> TRUE]
  ELSE IF Len(ToAppend(cached[1].data, outcome.data)) = 0
    THEN [store |-> storage, returned |-> FALSE]
  ELSE IF storeMode # "ok" THEN [store |-> storage, returned |-> FALSE]
  ELSE [store |-> Put(storage, StockKey(symbol),
                      [symbol |-> cached[1].symbol,
                       data |-> SortByTimestamp(cached[1].data
                                                \o ToAppend(cached[1].data, outcome.data)),
                       lastUpdated |-> now, dataRange |-> DataRange(now)]),
        returned |-> TRUE]

\* The slot of the next effect run: the first that is idle.
FreeRun(n) ==
  /\ flows[n].pc = "idle"
  /\ \A m \in ChartRuns : m < n => flows[m].pc # "idle"

\* setChartData(formatChartData(candles, period)) in the run of (symbol, period).
ShowCandles(symbol, period, candles) ==
  [chart EXCEPT !.chartData = ChartData("candles", symbol, period,
                                        formatChartData(candles, period)),
                !.isLoading = FALSE]

\* setChartData(generateMockStockData(symbol)); the random values are left out.
ShowMock(symbol, period) ==
  [chart EXCEPT !.chartData = ChartData("mock", symbol, period, << >>),
                !.isLoading = FALSE]

\* The render with the new props, before the effect runs.
Rendered(symbol, period) ==
  [chart EXCEPT !.mounted = TRUE, !.stockSymbol = symbol, !.period = period]

\* loadStockData up to its first await, with what getCachedData returned and
\* the candles getFilteredData made of it: cached candles are shown and the
\* background refresh starts (it reads the same live entry), or the 2-year
\* fetch starts.
LoadWith(n, symbol, period, read, cachedData) ==
  IF cachedData # << >> /\ Len(cachedData[1]) > 0
    THEN /\ chart' = [Rendered(symbol, period) EXCEPT
                        !.chartData = ChartData("candles", symbol, period,
                                                formatChartData(cachedData[1], period)),
                        !.isLoading = FALSE]
         /\ flows' = [flows EXCEPT ![n] = [pc |-> "refreshing", symbol |-> symbol,
                                           period |-> period, cached |-> read.ret]]
         /\ last' = [op |-> "loadStockData", symbol |-> symbol, period |-> period,
                     step |-> "cached"]
    ELSE /\ chart' = [Rendered(symbol, period) EXCEPT !.isLoading = TRUE]
         /\ flows' = [flows EXCEPT ![n] = [pc |-> "fetching", symbol |-> symbol,
                                           period |-> period]]
         /\ last' = [op |-> "loadStockData", symbol |-> symbol, period |-> period,
                     step |-> "fetch"]

\* The effect of [stockSymbol, period]: it runs at mount and whenever one of
\* them changes, and returns no cleanup, so earlier runs stay pending.
RunEffect(n, symbol, period) ==
  /\ FreeRun(n)
  /\ ~chart.mounted \/ << symbol, period >> # << chart.stockSymbol, chart.period >>
  /\ storage' = GetCached(symbol).store
  /\ LoadWith(n, symbol, period, GetCached(symbol),
              CandlesOf(GetCached(symbol).ret, period))
  /\ UNCHANGED << now, storeMode, origin >>

\* .then((updated) => ...) of the background refresh, with its result.
AfterRefresh(n, result) ==
  /\ storage' = result.store
  /\ chart' = IF result.returned /\ LiveEntry(result.store, flows[n].symbol) # << >>
                THEN ShowCandles(flows[n].symbol, flows[n].period,
                                 CandlesOf(LiveEntry(result.store, flows[n].symbol),
                                           flows[n].period)[1])
                ELSE chart
  /\ last' = [op |-> "refreshCacheWithLatest", symbol |-> flows[n].symbol,
              period |-> flows[n].period, returned |-> result.returned]

\* The background refresh of run n completes with what its fetch gave.
RefreshDone(n, outcome) ==
  /\ flows[n].pc = "refreshing"
  /\ AfterRefresh(n, RefreshOutcome(flows[n].symbol, flows[n].cached, outcome))
  /\ flows' = [flows EXCEPT ![n] = [pc |-> "idle"]]
  /\ UNCHANGED << now, storeMode, origin >>

\* loadStockData after await getChartData(symbol, '1mo'): the data is stored
\* and shown as candles; without data, or on a rejection, mock data is shown.
FetchDone(n, outcome) ==
  /\ flows[n].pc = "fetching"
  /\ IF outcome.ok /\ Len(outcome.data) > 0
       THEN /\ storage' = SetCached(flows[n].symbol, outcome.data)
            /\ chart' =
                 IF LiveEntry(SetCached(flows[n].symbol, outcome.data), flows[n].symbol) # << >>
                   THEN ShowCandles(flows[n].symbol, flows[n].period,
                                    CandlesOf(LiveEntry(SetCached(flows[n].symbol, outcome.data),
                                                        flows[n].symbol),
                                              flows[n].period)[1])
                   ELSE [chart EXCEPT !.isLoading = FALSE]
       ELSE /\ storage' = storage
            /\ chart' = ShowMock(flows[n].symbol, flows[n].period)
  /\ last' = [op |-> "loadStockData", symbol |-> flows[n].symbol,
              period |-> flows[n].period, step |-> "fetched"]
  /\ flows' = [flows EXCEPT ![n] = [pc |-> "idle"]]
  /\ UNCHANGED << now, storeMode, origin >>

ChartInit ==
  /\ now = 0
  /\ storage = EarlierSession
  /\ storeMode = "ok"
  /\ flows = [n \in ChartRuns |-> [pc |-> "idle"]]
  /\ origin = << >>
  /\ last = [op |-> "none"]
  /\ chart = Unmounted

ChartNext ==
  \/ \E n \in ChartRuns, s \in ChartSymbols, p \in ChartPeriods : RunEffect(n, s, p)
  \/ \E n \in ChartRuns, o \in ChartOutcomes : RefreshDone(n, o)
  \/ \E n \in ChartRuns, o \in ChartOutcomes : FetchDone(n, o)
  \/ Tick(CACHE_EXPIRY + 1)

ChartSpec == ChartInit /\ [][ChartNext]_vars

\* Nothing the chart started is pending.
Quiescent == chart.mounted /\ \A n \in ChartRuns : flows[n].pc = "idle"

\* C30: after the selected symbol or period changes, once every pending load
\* and background refresh has completed, the displayed chart data is that of
\* the currently selected symbol and period: the completion of a load or
\* refresh started for an earlier selection never overwrites it.
C30_ShowsSelected ==
  Quiescent =>
    /\ chart.chartData.symbol = chart.stockSymbol
    /\ chart.chartData.period = chart.period

=============================================================================
